---- MODULE Spec2Model ----
(***************************************************************************)
(* Predicate filtering and row-group pruning engine of parquet-lens-core   *)
(* (src/parquet-lens-core/src/filter.rs): lexer, recursive-descent parser, *)
(* statistics pruner, batch evaluator and the filter_count driver.         *)
(*                                                                         *)
(* Text is a sequence of one-character strings.  A 64-bit float is the     *)
(* rational num / FloatScale; `x as f64` of an integer multiplies by       *)
(* FloatScale and `x as i64` of a float truncates toward zero.             *)
(***************************************************************************)
EXTENDS Integers, Sequences, FiniteSets, TLC

VARIABLES
    file,            \* the parquet file: schema and row groups (metadata and rows)
    predicate,       \* the Predicate handed to filter_count / the pruner / the evaluator
    pc,              \* position of the running operation
    rg_idx,          \* filter_count: index of the next row group to prune
    skipped_rgs,     \* filter_count: local skipped_rgs
    rgs_to_scan,     \* filter_count: local rgs_to_scan
    pending,         \* filter_count: batches the reader has still to yield
    decoded,         \* rows handed to the evaluator so far, as <<row group, row>> pairs
    matched_rows,    \* filter_count: local matched_rows
    scanned_rows,    \* filter_count: local scanned_rows
    sample_headers,  \* filter_count: local sample_headers
    sample_rows,     \* filter_count: local sample_rows
    result,          \* what the operation returned
    skip,            \* pruner run on one row group: value of can_skip_row_group
    mask,            \* evaluator run on one batch: the selection mask
    input,           \* parse_predicate: the expression text
    tokens,          \* parse_predicate: Parser.tokens
    lex_chars,       \* tokenize: the characters the iterator has still to yield
    parser_pos,      \* Parser.pos, counted from 1
    stack            \* the running calls of the parser, the innermost last

vars == <<file, predicate, pc, rg_idx, skipped_rgs, rgs_to_scan, pending, decoded,
          matched_rows, scanned_rows, sample_headers, sample_rows, result,
          skip, mask, input, tokens, lex_chars, parser_pos, stack>>

(***************************************************************************)
(* Bounds of the model.                                                    *)
(***************************************************************************)
MaxRows == 2        \* rows in a generated row group
MaxVal == 1         \* generated integer cells lie in 0..MaxVal
FloatScale == 2     \* floats are the multiples of 1/FloatScale
MaxRowGroups == 2   \* row groups in a generated file
BatchSize == 12     \* rows per decoded batch (more than SAMPLE_LIMIT)
MaxPieces == 3      \* lexical pieces in a generated expression
MaxBody == 3        \* characters between the quotes of a generated string literal
MaxNest == 4        \* pieces in an expression parsed step by step
MaxLike == 3        \* characters in a generated text cell or LIKE pattern

(***************************************************************************)
(* Text helpers.                                                           *)
(***************************************************************************)
\* The characters of the model in byte order (Rust compares str bytewise).
Ascii == <<" ", "!", "\"", "%", "'", "(", ")", ",", "-", ".", "0", "1", "2", "3", "4",
           "5", "6", "7", "8", "9", "<", "=", ">", "A", "D", "E", "F", "I", "K", "L",
           "N", "O", "R", "S", "T", "U", "\\", "_", "a", "b", "c", "d", "e", "f", "g",
           "i", "k", "l", "n", "o", "r", "s", "t", "u", "x", "z">>

CharCode(c) == CHOOSE i \in 1..Len(Ascii) : Ascii[i] = c

RECURSIVE StrLess(_, _)
StrLess(s, t) ==
    IF t = <<>> THEN FALSE
    ELSE IF s = <<>> THEN TRUE
    ELSE IF Head(s) = Head(t) THEN StrLess(Tail(s), Tail(t))
    ELSE CharCode(Head(s)) < CharCode(Head(t))

StartsWith(s, p) == Len(p) <= Len(s) /\ SubSeq(s, 1, Len(p)) = p

RECURSIVE SeqSum(_)
SeqSum(s) == IF s = <<>> THEN 0 ELSE Head(s) + SeqSum(Tail(s))

RECURSIVE Join(_)
Join(ss) == IF ss = <<>> THEN <<>> ELSE Head(ss) \o Join(Tail(ss))

SeqsUpTo(S, lo, hi) == UNION {[1..n -> S] : n \in lo..hi}

(***************************************************************************)
(* AST: CmpOp, Value, Predicate.                                           *)
(***************************************************************************)
CmpOp == {"Eq", "Ne", "Lt", "Le", "Gt", "Ge"}

IntV(i) == [kind |-> "Int", num |-> i, str |-> <<>>, bool |-> FALSE]
FloatV(f) == [kind |-> "Float", num |-> f, str |-> <<>>, bool |-> FALSE]
StrV(s) == [kind |-> "Str", num |-> 0, str |-> s, bool |-> FALSE]
BoolV(b) == [kind |-> "Bool", num |-> 0, str |-> <<>>, bool |-> b]
NullV == [kind |-> "Null", num |-> 0, str |-> <<>>, bool |-> FALSE]

Comparison(col, op, val) == [node |-> "Comparison", col |-> col, op |-> op, val |-> val]
IsNull(col) == [node |-> "IsNull", col |-> col]
IsNotNull(col) == [node |-> "IsNotNull", col |-> col]
In(col, vals) == [node |-> "In", col |-> col, vals |-> vals]
Like(col, pattern) == [node |-> "Like", col |-> col, pattern |-> pattern]
And(a, b) == [node |-> "And", a |-> a, b |-> b]
Or(a, b) == [node |-> "Or", a |-> a, b |-> b]
Not(inner) == [node |-> "Not", inner |-> inner]

(***************************************************************************)
(* Numeric casts.                                                          *)
(***************************************************************************)
\* `i as f64`, exact for the integers of the model
AsF64(i) == i * FloatScale
\* `f as i64`: truncation toward zero
AsI64(f) == IF f >= 0 THEN f \div FloatScale ELSE -((-f) \div FloatScale)

(***************************************************************************)
(* Storage collaborator: statistics, column chunks, row groups, batches.   *)
(***************************************************************************)
None == [some |-> FALSE, v |-> 0]
Some(x) == [some |-> TRUE, v |-> x]

NullCell == [null |-> TRUE, num |-> 0, str |-> <<>>, bool |-> FALSE]
NumCell(n) == [null |-> FALSE, num |-> n, str |-> <<>>, bool |-> FALSE]
StrCell(s) == [null |-> FALSE, num |-> 0, str |-> s, bool |-> FALSE]
BoolCell(b) == [null |-> FALSE, num |-> 0, str |-> <<>>, bool |-> b]

NoStats == [present |-> FALSE, phys |-> "None", min |-> None, max |-> None,
            null_count |-> None]

Stats(phys, mn, mx, nc) == [present |-> TRUE, phys |-> phys, min |-> mn, max |-> mx,
                            null_count |-> nc]

\* physical statistics kind the writer records for an arrow element type
PhysOf(dtype) ==
    CASE dtype \in {"Int8", "Int16", "Int32"} -> "Int32"
      [] dtype = "Int64" -> "Int64"
      [] dtype = "Float32" -> "Float"
      [] dtype = "Float64" -> "Double"
      [] dtype = "Utf8" -> "ByteArray"
      [] dtype = "Boolean" -> "Boolean"

(***************************************************************************)
(* Row-group pushdown.  A row group is [num_rows, columns], a column chunk *)
(* [name, dtype, stats, cells].  min/max of Int32/Int64 statistics are     *)
(* integers, those of Float/Double statistics are floats; the values of    *)
(* ByteArray/Boolean min/max are never read by the pruner and are kept 0.  *)
(***************************************************************************)
RECURSIVE FindFrom(_, _, _)
FindFrom(col, columns, i) ==
    IF i > Len(columns) THEN 0
    ELSE IF columns[i].name = col THEN i
    ELSE FindFrom(col, columns, i + 1)

\* position of the first column named col, 0 when there is none
IndexOf(col, columns) == FindFrom(col, columns, 1)

\* Option<&Statistics>: NoStats when the column is absent or carries no statistics
FindColStats(col, rg) ==
    LET i == IndexOf(col, rg.columns)
    IN  IF i = 0 THEN NoStats ELSE rg.columns[i].stats

\* IntervalSkip with Gt tested against the wrong end of the interval
IntervalSkip_GtMin(op, v, min, max) ==
    CASE op = "Eq" -> v < min \/ v > max
      [] op = "Lt" -> v <= min
      [] op = "Le" -> v < min
      [] op = "Gt" -> v >= min
      [] op = "Ge" -> v > max
      [] op = "Ne" -> FALSE

\* IntervalSkip with the boundary of Lt off by one
IntervalSkip_LtStrict(op, v, min, max) ==
    CASE op = "Eq" -> v < min \/ v > max
      [] op = "Lt" -> v < min
      [] op = "Le" -> v < min
      [] op = "Gt" -> v >= max
      [] op = "Ge" -> v > max
      [] op = "Ne" -> FALSE

\* the `match op` block every numeric arm of stat_can_skip ends with
IntervalSkip(op, v, min, max) ==
    CASE op = "Eq" -> v < min \/ v > max
      [] op = "Lt" -> v <= min
      [] op = "Le" -> v < min
      [] op = "Gt" -> v >= max
      [] op = "Ge" -> v > max
      [] op = "Ne" -> FALSE

\* stat_can_skip reading a missing min or max as zero
StatCanSkip_DefaultZero(stats, op, val) ==
    LET mn == IF stats.min.some THEN stats.min.v ELSE 0
        mx == IF stats.max.some THEN stats.max.v ELSE 0
    IN  CASE stats.phys \in {"Int32", "Int64"} /\ val.kind = "Int" ->
                IntervalSkip(op, val.num, mn, mx)
          [] stats.phys \in {"Float", "Double"} /\ val.kind = "Float" ->
                IntervalSkip(op, val.num, mn, mx)
          [] stats.phys \in {"Int32", "Int64"} /\ val.kind = "Float" ->
                IntervalSkip(op, val.num, AsF64(mn), AsF64(mx))
          [] OTHER -> FALSE

StatCanSkip(stats, op, val) ==
    CASE stats.phys \in {"Int32", "Int64"} /\ val.kind = "Int" ->
            IF stats.min.some /\ stats.max.some
            THEN IntervalSkip(op, val.num, stats.min.v, stats.max.v)
            ELSE FALSE
      [] stats.phys \in {"Float", "Double"} /\ val.kind = "Float" ->
            IF stats.min.some /\ stats.max.some
            THEN IntervalSkip(op, val.num, stats.min.v, stats.max.v)
            ELSE FALSE
      [] stats.phys \in {"Int32", "Int64"} /\ val.kind = "Float" ->
            IF stats.min.some /\ stats.max.some
            THEN IntervalSkip(op, val.num, AsF64(stats.min.v), AsF64(stats.max.v))
            ELSE FALSE
      [] OTHER -> FALSE

CanSkipLeaf(pred, rg) ==
    CASE pred.node = "Comparison" ->
            LET stats == FindColStats(pred.col, rg)
            IN  IF stats.present THEN StatCanSkip(stats, pred.op, pred.val) ELSE FALSE
      [] pred.node = "IsNull" ->
            LET stats == FindColStats(pred.col, rg)
            IN  IF stats.present
                THEN (IF stats.null_count.some THEN stats.null_count.v = 0 ELSE FALSE)
                ELSE FALSE
      [] pred.node \in {"IsNotNull", "In", "Like"} -> FALSE

\* can_skip_row_group with AND skipped only when both sides are
RECURSIVE CanSkipRowGroup_AndBoth(_, _)
CanSkipRowGroup_AndBoth(pred, rg) ==
    CASE pred.node = "And" ->
            CanSkipRowGroup_AndBoth(pred.a, rg) /\ CanSkipRowGroup_AndBoth(pred.b, rg)
      [] pred.node = "Or" ->
            CanSkipRowGroup_AndBoth(pred.a, rg) /\ CanSkipRowGroup_AndBoth(pred.b, rg)
      [] pred.node = "Not" -> FALSE
      [] OTHER -> CanSkipLeaf(pred, rg)

\* can_skip_row_group with NOT passing its child's answer through
RECURSIVE CanSkipRowGroup_NotThrough(_, _)
CanSkipRowGroup_NotThrough(pred, rg) ==
    CASE pred.node = "And" ->
            CanSkipRowGroup_NotThrough(pred.a, rg) \/ CanSkipRowGroup_NotThrough(pred.b, rg)
      [] pred.node = "Or" ->
            CanSkipRowGroup_NotThrough(pred.a, rg) /\ CanSkipRowGroup_NotThrough(pred.b, rg)
      [] pred.node = "Not" -> CanSkipRowGroup_NotThrough(pred.inner, rg)
      [] OTHER -> CanSkipLeaf(pred, rg)

\* can_skip_row_group with IS NULL skipped when the null count is unknown
RECURSIVE CanSkipRowGroup_NullUnknown(_, _)
CanSkipRowGroup_NullUnknown(pred, rg) ==
    CASE pred.node = "And" ->
            CanSkipRowGroup_NullUnknown(pred.a, rg) \/ CanSkipRowGroup_NullUnknown(pred.b, rg)
      [] pred.node = "Or" ->
            CanSkipRowGroup_NullUnknown(pred.a, rg) /\ CanSkipRowGroup_NullUnknown(pred.b, rg)
      [] pred.node = "Not" -> FALSE
      [] pred.node = "IsNull" ->
            LET stats == FindColStats(pred.col, rg)
            IN  IF stats.present
                THEN (IF stats.null_count.some THEN stats.null_count.v = 0 ELSE TRUE)
                ELSE FALSE
      [] OTHER -> CanSkipLeaf(pred, rg)

RECURSIVE CanSkipRowGroup(_, _)
CanSkipRowGroup(pred, rg) ==
    CASE pred.node = "And" -> CanSkipRowGroup(pred.a, rg) \/ CanSkipRowGroup(pred.b, rg)
      [] pred.node = "Or" -> CanSkipRowGroup(pred.a, rg) /\ CanSkipRowGroup(pred.b, rg)
      [] pred.node = "Not" -> FALSE
      [] pred.node = "Comparison" ->
            LET stats == FindColStats(pred.col, rg)
            IN  IF stats.present THEN StatCanSkip(stats, pred.op, pred.val) ELSE FALSE
      [] pred.node = "IsNull" ->
            LET stats == FindColStats(pred.col, rg)
            IN  IF stats.present
                THEN (IF stats.null_count.some THEN stats.null_count.v = 0 ELSE FALSE)
                ELSE FALSE
      [] pred.node \in {"IsNotNull", "In", "Like"} -> FALSE

(***************************************************************************)
(* Filter evaluation on a RecordBatch [num_rows, columns]; a column is     *)
(* [name, dtype, cells].  A mask is a sequence of booleans.                *)
(***************************************************************************)
FalseArr(n) == [i \in 1..n |-> FALSE]

MaskAnd(ma, mb) == [i \in 1..Len(ma) |-> ma[i] /\ mb[i]]
MaskOr(ma, mb) == [i \in 1..Len(ma) |-> ma[i] \/ mb[i]]
MaskNot(m) == [i \in 1..Len(m) |-> ~m[i]]
TrueCount(m) == Cardinality({i \in 1..Len(m) : m[i]})

cmp_i64(v, op, cv) ==
    CASE op = "Eq" -> v = cv
      [] op = "Ne" -> v # cv
      [] op = "Lt" -> v < cv
      [] op = "Le" -> v <= cv
      [] op = "Gt" -> v > cv
      [] op = "Ge" -> v >= cv

cmp_f64(v, op, cv) ==
    CASE op = "Eq" -> v = cv
      [] op = "Ne" -> v # cv
      [] op = "Lt" -> v < cv
      [] op = "Le" -> v <= cv
      [] op = "Gt" -> v > cv
      [] op = "Ge" -> v >= cv

cmp_str(v, op, sv) ==
    CASE op = "Eq" -> v = sv
      [] op = "Ne" -> v # sv
      [] op = "Lt" -> StrLess(v, sv)
      [] op = "Le" -> v = sv \/ StrLess(v, sv)
      [] op = "Gt" -> StrLess(sv, v)
      [] op = "Ge" -> v = sv \/ StrLess(sv, v)

cmp_bool(v, op, bv) ==
    CASE op = "Eq" -> v = bv
      [] op = "Ne" -> v # bv
      [] OTHER -> FALSE

BuildMask(arr, op, val, n) ==
    CASE arr.dtype \in {"Int32", "Int64"} ->
            IF val.kind \in {"Int", "Float"}
            THEN LET cv == IF val.kind = "Int" THEN val.num ELSE AsI64(val.num)
                 IN  [i \in 1..n |-> IF arr.cells[i].null THEN FALSE
                                     ELSE cmp_i64(arr.cells[i].num, op, cv)]
            ELSE FalseArr(n)
      [] arr.dtype \in {"Float32", "Float64"} ->
            IF val.kind \in {"Int", "Float"}
            THEN LET cv == IF val.kind = "Float" THEN val.num ELSE AsF64(val.num)
                 IN  [i \in 1..n |-> IF arr.cells[i].null THEN FALSE
                                     ELSE cmp_f64(arr.cells[i].num, op, cv)]
            ELSE FalseArr(n)
      [] arr.dtype = "Utf8" ->
            IF val.kind = "Str"
            THEN [i \in 1..n |-> IF arr.cells[i].null THEN FALSE
                                 ELSE cmp_str(arr.cells[i].str, op, val.str)]
            ELSE FalseArr(n)
      [] arr.dtype = "Boolean" ->
            IF val.kind = "Bool"
            THEN [i \in 1..n |-> IF arr.cells[i].null THEN FALSE
                                 ELSE cmp_bool(arr.cells[i].bool, op, val.bool)]
            ELSE FalseArr(n)
      [] OTHER -> FalseArr(n)

\* eval_comparison marking every row when the column is missing from the batch
EvalComparison_MissingTrue(col, op, val, batch) ==
    LET idx == IndexOf(col, batch.columns)
    IN  IF idx = 0 THEN [i \in 1..batch.num_rows |-> TRUE]
        ELSE BuildMask(batch.columns[idx], op, val, batch.num_rows)

EvalComparison(col, op, val, batch) ==
    LET idx == IndexOf(col, batch.columns)
    IN  IF idx = 0 THEN FalseArr(batch.num_rows)
        ELSE BuildMask(batch.columns[idx], op, val, batch.num_rows)

\* the loop of eval_in leaving after the first value
InLoop_FirstOnly(arr, vals, n, acc) ==
    IF vals = <<>> THEN acc
    ELSE MaskOr(acc, BuildMask(arr, "Eq", Head(vals), n))

RECURSIVE InLoop(_, _, _, _)
InLoop(arr, vals, n, acc) ==
    IF vals = <<>> THEN acc
    ELSE InLoop(arr, Tail(vals), n, MaskOr(acc, BuildMask(arr, "Eq", Head(vals), n)))

EvalIn(col, vals, batch) ==
    LET n == batch.num_rows
        idx == IndexOf(col, batch.columns)
    IN  IF idx = 0 THEN FalseArr(n)
        ELSE IF vals = <<>> THEN FalseArr(n)
        ELSE InLoop(batch.columns[idx], vals, n, FalseArr(n))

\* LikePart: [part |-> "Literal" | "Any" | "One", lit]
RECURSIVE LikeParts(_, _, _)
LikeParts(pattern, literal, parts) ==
    LET flushed == IF literal # <<>>
                   THEN Append(parts, [part |-> "Literal", lit |-> literal])
                   ELSE parts
    IN  IF pattern = <<>> THEN flushed
        ELSE IF Head(pattern) = "%"
        THEN LikeParts(Tail(pattern), <<>>, Append(flushed, [part |-> "Any", lit |-> <<>>]))
        ELSE IF Head(pattern) = "_"
        THEN LikeParts(Tail(pattern), <<>>, Append(flushed, [part |-> "One", lit |-> <<>>]))
        ELSE LikeParts(Tail(pattern), Append(literal, Head(pattern)), parts)

like_to_regex(pattern) == LikeParts(pattern, <<>>, <<>>)

\* like_match_at with % covering one or more characters
RECURSIVE like_match_at_AnyNonEmpty(_, _)
like_match_at_AnyNonEmpty(s, parts) ==
    IF parts = <<>> THEN s = <<>>
    ELSE CASE parts[1].part = "Literal" ->
                 IF StartsWith(s, parts[1].lit)
                 THEN like_match_at_AnyNonEmpty(SubSeq(s, Len(parts[1].lit) + 1, Len(s)),
                                                Tail(parts))
                 ELSE FALSE
           [] parts[1].part = "One" ->
                 IF s # <<>> THEN like_match_at_AnyNonEmpty(Tail(s), Tail(parts)) ELSE FALSE
           [] parts[1].part = "Any" ->
                 \E i \in 1..Len(s) :
                     like_match_at_AnyNonEmpty(SubSeq(s, i + 1, Len(s)), Tail(parts))

RECURSIVE like_match_at(_, _)
like_match_at(s, parts) ==
    IF parts = <<>> THEN s = <<>>
    ELSE CASE parts[1].part = "Literal" ->
                 IF StartsWith(s, parts[1].lit)
                 THEN like_match_at(SubSeq(s, Len(parts[1].lit) + 1, Len(s)), Tail(parts))
                 ELSE FALSE
           [] parts[1].part = "One" ->
                 IF s # <<>> THEN like_match_at(Tail(s), Tail(parts)) ELSE FALSE
           [] parts[1].part = "Any" ->
                 \E i \in 0..Len(s) : like_match_at(SubSeq(s, i + 1, Len(s)), Tail(parts))

like_match(s, parts) == like_match_at(s, parts)

\* eval_like reading a null slot as the empty string
EvalLike_NullAsEmpty(col, pattern, batch) ==
    LET n == batch.num_rows
        idx == IndexOf(col, batch.columns)
    IN  IF idx = 0 THEN FalseArr(n)
        ELSE IF batch.columns[idx].dtype # "Utf8" THEN FalseArr(n)
        ELSE LET a == batch.columns[idx]
                 re == like_to_regex(pattern)
             IN  [i \in 1..n |-> like_match(a.cells[i].str, re)]

EvalLike(col, pattern, batch) ==
    LET n == batch.num_rows
        idx == IndexOf(col, batch.columns)
    IN  IF idx = 0 THEN FalseArr(n)
        ELSE IF batch.columns[idx].dtype # "Utf8" THEN FalseArr(n)
        ELSE LET a == batch.columns[idx]
                 re == like_to_regex(pattern)
             IN  [i \in 1..n |-> IF a.cells[i].null THEN FALSE
                                 ELSE like_match(a.cells[i].str, re)]

RECURSIVE EvalPredicateBatch(_, _)
EvalPredicateBatch(pred, batch) ==
    LET n == batch.num_rows
    IN  CASE pred.node = "And" ->
                MaskAnd(EvalPredicateBatch(pred.a, batch), EvalPredicateBatch(pred.b, batch))
          [] pred.node = "Or" ->
                MaskOr(EvalPredicateBatch(pred.a, batch), EvalPredicateBatch(pred.b, batch))
          [] pred.node = "Not" -> MaskNot(EvalPredicateBatch(pred.inner, batch))
          [] pred.node = "IsNull" ->
                LET i == IndexOf(pred.col, batch.columns)
                IN  IF i = 0 THEN FalseArr(n)
                    ELSE [r \in 1..n |-> batch.columns[i].cells[r].null]
          [] pred.node = "IsNotNull" ->
                LET i == IndexOf(pred.col, batch.columns)
                IN  IF i = 0 THEN FalseArr(n)
                    ELSE [r \in 1..n |-> ~batch.columns[i].cells[r].null]
          [] pred.node = "Comparison" -> EvalComparison(pred.col, pred.op, pred.val, batch)
          [] pred.node = "In" -> EvalIn(pred.col, pred.vals, batch)
          [] pred.node = "Like" -> EvalLike(pred.col, pred.pattern, batch)

\* predicate_columns descending only into the left side of AND / OR
RECURSIVE predicate_columns_LeftOnly(_)
predicate_columns_LeftOnly(pred) ==
    CASE pred.node \in {"Comparison", "IsNull", "IsNotNull", "In", "Like"} -> <<pred.col>>
      [] pred.node \in {"And", "Or"} -> predicate_columns_LeftOnly(pred.a)
      [] pred.node = "Not" -> predicate_columns_LeftOnly(pred.inner)

\* collect all column names referenced in predicate
RECURSIVE predicate_columns(_)
predicate_columns(pred) ==
    CASE pred.node \in {"Comparison", "IsNull", "IsNotNull", "In", "Like"} -> <<pred.col>>
      [] pred.node \in {"And", "Or"} -> predicate_columns(pred.a) \o predicate_columns(pred.b)
      [] pred.node = "Not" -> predicate_columns(pred.inner)

(***************************************************************************)
(* Inputs: generated row groups with one column `a`, statistics as a       *)
(* writer records them (min and max are the least and greatest non-null    *)
(* cell, null_count the number of null cells), each statistic optional.    *)
(***************************************************************************)
ColA == <<"a">>
ColZ == <<"z">>

DTypes == {"Int8", "Int16", "Int32", "Int64", "Float32", "Float64", "Utf8", "Boolean"}

StrVals == {<<"a">>, <<"a", "b">>}

CellValues(dtype) ==
    CASE dtype \in {"Int8", "Int16", "Int32", "Int64"} -> {NumCell(i) : i \in 0..MaxVal}
      [] dtype \in {"Float32", "Float64"} -> {NumCell(AsF64(i)) : i \in 0..MaxVal} \cup {NumCell(1)}
      [] dtype = "Utf8" -> {StrCell(s) : s \in StrVals}
      [] dtype = "Boolean" -> {BoolCell(b) : b \in BOOLEAN}

NonNullNums(cells) == {cells[i].num : i \in {j \in 1..Len(cells) : ~cells[j].null}}
NullCount(cells) == Cardinality({i \in 1..Len(cells) : cells[i].null})
MinOf(S) == CHOOSE x \in S : \A y \in S : x <= y
MaxOf(S) == CHOOSE x \in S : \A y \in S : x >= y

\* the statistics a writer computes for a column chunk
WriterStats(dtype, cells) ==
    LET nums == NonNullNums(cells)
        numeric == dtype \notin {"Utf8", "Boolean"}
    IN  Stats(PhysOf(dtype),
              IF nums = {} THEN None ELSE Some(IF numeric THEN MinOf(nums) ELSE 0),
              IF nums = {} THEN None ELSE Some(IF numeric THEN MaxOf(nums) ELSE 0),
              Some(NullCount(cells)))

\* the same statistics with one of them left out, or none written at all
StatsVariants(dtype, cells) ==
    LET w == WriterStats(dtype, cells)
    IN  {w, NoStats, [w EXCEPT !.min = None], [w EXCEPT !.max = None],
         [w EXCEPT !.null_count = None]}

ColumnChunk(name, dtype, stats, cells) ==
    [name |-> name, dtype |-> dtype, stats |-> stats, cells |-> cells]

RowGroup(columns) == [num_rows |-> Len(columns[1].cells), columns |-> columns]

\* the statistics generated for a column chunk: every variant for the element
\* types that have a physical statistics kind of their own, the writer's
\* statistics for the narrow ones stored as Int32 / Float
GenStats(dtype, cells) ==
    IF dtype \in {"Int8", "Int16", "Float32"} THEN {WriterStats(dtype, cells)}
    ELSE StatsVariants(dtype, cells)

\* the row groups of at most n rows
GenRowGroups(n) ==
    UNION {UNION {{RowGroup(<<ColumnChunk(ColA, dtype, st, cells)>>) :
                        st \in GenStats(dtype, cells)} :
                  cells \in SeqsUpTo(CellValues(dtype) \cup {NullCell}, 1, n)} :
           dtype \in DTypes}

\* each non-null cell lies between the recorded min and max, and the recorded
\* null count is the true one
AccurateColumn(c) ==
    /\ c.stats.present /\ c.stats.min.some /\ c.stats.phys \notin {"ByteArray", "Boolean"}
          => \A x \in NonNullNums(c.cells) : c.stats.min.v <= x
    /\ c.stats.present /\ c.stats.max.some /\ c.stats.phys \notin {"ByteArray", "Boolean"}
          => \A x \in NonNullNums(c.cells) : x <= c.stats.max.v
    /\ c.stats.present /\ c.stats.null_count.some => c.stats.null_count.v = NullCount(c.cells)

Accurate(rg) == \A i \in 1..Len(rg.columns) : AccurateColumn(rg.columns[i])

File(schema, row_groups) == [readable |-> TRUE, schema |-> schema, row_groups |-> row_groups]

SchemaOf(rg) == [i \in 1..Len(rg.columns) |->
                    [name |-> rg.columns[i].name, dtype |-> rg.columns[i].dtype]]

\* the decoded rows of a row group as one batch
BatchOf(rg) ==
    [num_rows |-> rg.num_rows,
     columns |-> [i \in 1..Len(rg.columns) |->
                    [name |-> rg.columns[i].name, dtype |-> rg.columns[i].dtype,
                     cells |-> rg.columns[i].cells]]]

(***************************************************************************)
(* Inputs: generated predicates.                                           *)
(***************************************************************************)
IntLits == {IntV(i) : i \in (0 - 1)..(MaxVal + 1)}
FloatLits == {FloatV(f) : f \in (0 - 1)..(AsF64(MaxVal) + 1)}
StrLits == {StrV(<<"a">>), StrV(<<"b">>)}
BoolLits == {BoolV(TRUE), BoolV(FALSE)}
Literals == IntLits \cup FloatLits \cup StrLits \cup BoolLits \cup {NullV}

Comparisons == {Comparison(ColA, op, v) : op \in CmpOp, v \in Literals}

OtherAtoms ==
    {IsNull(ColA), IsNotNull(ColA), IsNull(ColZ), IsNotNull(ColZ),
     Comparison(ColZ, "Eq", IntV(0)), Comparison(ColZ, "Ne", IntV(MaxVal + 1)),
     In(ColA, <<>>), In(ColA, <<IntV(0)>>), In(ColA, <<FloatV(1), IntV(MaxVal)>>),
     In(ColA, <<StrV(<<"a">>), IntV(0), BoolV(TRUE)>>), In(ColZ, <<IntV(0)>>),
     Like(ColA, <<"a", "%">>), Like(ColA, <<"_">>), Like(ColA, <<"%">>),
     Like(ColA, <<"%", "b">>), Like(ColZ, <<"%">>)}

\* the atoms composite predicates are built from
CoreAtoms ==
    {Comparison(ColA, "Gt", IntV(MaxVal)), Comparison(ColA, "Eq", IntV(0)),
     Comparison(ColA, "Ge", FloatV(1)), Comparison(ColA, "Ne", IntV(0)),
     IsNull(ColA), Like(ColA, <<"a", "%">>)}

Composites(S) == {Not(p) : p \in S} \cup {And(p, q) : p, q \in S} \cup {Or(p, q) : p, q \in S}

\* the atoms predicates of depth two are built from
InnerAtoms ==
    {Comparison(ColA, "Gt", IntV(MaxVal)), Comparison(ColA, "Ge", FloatV(1)), IsNull(ColA)}

Nested ==
    {Not(p) : p \in Composites(InnerAtoms)}
      \cup {And(Not(p), q) : p, q \in InnerAtoms}
      \cup {Or(p, And(q, p)) : p, q \in InnerAtoms}
      \cup {And(Or(p, q), p) : p, q \in InnerAtoms}

GenPredicates == Comparisons \cup OtherAtoms \cup Composites(CoreAtoms) \cup Nested

(***************************************************************************)
(* Inputs: the row groups and predicates of the documented examples        *)
(* (a column with min = 10 and max = 20); the float literals are the whole *)
(* numbers and the literals one float unit above 15 and 20 (15.5 and 20.5  *)
(* when FloatScale = 2).                                                   *)
(***************************************************************************)
ExampleRowGroups ==
    {RowGroup(<<ColumnChunk(ColA, dtype, WriterStats(dtype, <<NumCell(10), NumCell(20)>>),
                            <<NumCell(10), NumCell(20)>>)>>) : dtype \in {"Int32", "Int64"}}
      \cup {RowGroup(<<ColumnChunk(ColA, dtype,
                                  WriterStats(dtype, <<NumCell(AsF64(10)), NumCell(AsF64(20))>>),
                                  <<NumCell(AsF64(10)), NumCell(AsF64(20))>>)>>) :
                dtype \in {"Float32", "Float64"}}

ExamplePredicates ==
    {Comparison(ColA, op, IntV(i)) : op \in CmpOp, i \in {5, 10, 15, 20, 25}}
      \cup {Comparison(ColA, op, FloatV(AsF64(i))) : op \in CmpOp, i \in {5, 10, 15, 20, 25}}
      \cup {Comparison(ColA, op, FloatV(AsF64(i) + 1)) : op \in CmpOp, i \in {15, 20}}

(***************************************************************************)
(* Inputs: text cells and LIKE patterns.  The texts are the strings over   *)
(* f and o of at most n characters and the texts of the documented         *)
(* examples, the patterns the strings over f, o, % and _ of at most n      *)
(* characters and some longer ones; a row group holds one text cell or one *)
(* null cell.                                                              *)
(***************************************************************************)
LikeTexts(n) ==
    SeqsUpTo({"f", "o"}, 0, n)
      \cup {<<"f", "o", "o", "o">>, <<"f", "o", "o", "b", "a", "r">>,
            <<"b", "a", "r", "f", "o", "o">>}

LikePatterns(n) ==
    SeqsUpTo({"f", "o", "%", "_"}, 0, n)
      \cup {<<"f", "o", "o", "%">>, <<"%", "f", "o", "o">>, <<"%", "o", "%", "o", "%">>,
            <<"f", "%", "r">>, <<"_", "_", "_", "_">>, <<"%", "b", "a", "r", "%">>,
            <<"f", "_", "_", "%", "_", "r">>}

LikeRowGroups(n) ==
    {RowGroup(<<ColumnChunk(ColA, "Utf8", WriterStats("Utf8", <<c>>), <<c>>)>>) :
        c \in {StrCell(t) : t \in LikeTexts(n)} \cup {NullCell}}

LikePredicates(n) == {Like(ColA, p) : p \in LikePatterns(n)}

(***************************************************************************)
(* Driver locals before filter_count runs, and the idle values of the      *)
(* variables an operation does not use.                                    *)
(***************************************************************************)
NoResult == [kind |-> "None"]

IdleDriver ==
    /\ rg_idx = 1 /\ skipped_rgs = 0 /\ rgs_to_scan = <<>> /\ pending = <<>>
    /\ decoded = <<>> /\ matched_rows = 0 /\ scanned_rows = 0
    /\ sample_headers = <<>> /\ sample_rows = <<>>

driver_vars == <<rg_idx, skipped_rgs, rgs_to_scan, pending, decoded, matched_rows,
                 scanned_rows, sample_headers, sample_rows>>

parser_vars == <<input, tokens, lex_chars, parser_pos, stack>>

(***************************************************************************)
(* Rendering of a cell for the sample (col_val_str).                       *)
(***************************************************************************)
Digits == <<"0", "1", "2", "3", "4", "5", "6", "7", "8", "9">>

RECURSIVE NatToText(_)
NatToText(n) ==
    IF n < 10 THEN <<Digits[n + 1]>>
    ELSE Append(NatToText(n \div 10), Digits[(n % 10) + 1])

\* i64::to_string
IntToText(i) == IF i < 0 THEN <<"-">> \o NatToText(0 - i) ELSE NatToText(i)

\* decimal digits of rem / FloatScale, at most `fuel` of them
RECURSIVE FracDigits(_, _)
FracDigits(rem, fuel) ==
    IF rem = 0 \/ fuel = 0 THEN <<>>
    ELSE <<Digits[((rem * 10) \div FloatScale) + 1]>>
            \o FracDigits((rem * 10) % FloatScale, fuel - 1)

\* f64::to_string: no fraction is printed for a whole number
FloatToText(f) ==
    LET m == IF f < 0 THEN 0 - f ELSE f
        whole == NatToText(m \div FloatScale)
        frac == FracDigits(m % FloatScale, 16)
    IN  (IF f < 0 THEN <<"-">> ELSE <<>>)
          \o whole \o (IF frac = <<>> THEN <<>> ELSE <<".">> \o frac)

col_val_str(col, row) ==
    IF col.cells[row].null THEN <<"N", "U", "L", "L">>
    ELSE CASE col.dtype \in {"Int32", "Int64"} -> IntToText(col.cells[row].num)
           [] col.dtype \in {"Float32", "Float64"} -> FloatToText(col.cells[row].num)
           [] col.dtype = "Utf8" -> col.cells[row].str
           [] col.dtype = "Boolean" ->
                 IF col.cells[row].bool THEN <<"t", "r", "u", "e">>
                 ELSE <<"f", "a", "l", "s", "e">>
           [] col.dtype = "Int8" -> <<"I", "n", "t", "8">>
           [] col.dtype = "Int16" -> <<"I", "n", "t", "1", "6">>

(***************************************************************************)
(* Inputs of the driver: files over the schema (a: Int64, b: Utf8), the    *)
(* file of the documented end-to-end scenario, and an unreadable file.     *)
(***************************************************************************)
ColB == <<"b">>
ColAge == <<"a", "g", "e">>

Written(name, dtype, cells) == ColumnChunk(name, dtype, WriterStats(dtype, cells), cells)

DriverRowGroups ==
    {RowGroup(<<Written(ColA, "Int64", <<NumCell(0), NumCell(1)>>),
                Written(ColB, "Utf8", <<StrCell(<<"a">>), NullCell>>)>>),
     RowGroup(<<Written(ColA, "Int64", <<NullCell>>),
                Written(ColB, "Utf8", <<StrCell(<<"a", "b">>)>>)>>),
     RowGroup(<<Written(ColA, "Int64", <<NumCell(1), NumCell(1), NumCell(0)>>),
                Written(ColB, "Utf8", <<NullCell, StrCell(<<"a", "b">>), StrCell(<<"a">>)>>)>>),
     RowGroup(<<ColumnChunk(ColA, "Int64", NoStats, <<NumCell(0)>>),
                ColumnChunk(ColB, "Utf8", NoStats, <<NullCell>>)>>)}

DriverSchema == <<[name |-> ColA, dtype |-> "Int64"], [name |-> ColB, dtype |-> "Utf8"]>>

\* the files of at most n row groups
DriverFiles(n) == {File(DriverSchema, rgs) : rgs \in SeqsUpTo(DriverRowGroups, 0, n)}

\* row groups longer than a batch: n + 1 rows of a = 1 with one null, n rows
\* of a = 0 with one 1 and one null, and a short group
LongA(n) ==
    RowGroup(<<Written(ColA, "Int64", [r \in 1..(n + 1) |-> IF r = 2 THEN NullCell ELSE NumCell(1)]),
               Written(ColB, "Utf8", [r \in 1..(n + 1) |->
                                        IF r = 3 THEN NullCell
                                        ELSE IF r = 1 THEN StrCell(<<"a", "b">>)
                                        ELSE StrCell(<<"a">>)])>>)

LongB(n) ==
    RowGroup(<<Written(ColA, "Int64", [r \in 1..n |-> IF r = 5 THEN NullCell
                                                     ELSE IF r = 3 THEN NumCell(1)
                                                     ELSE NumCell(0)]),
               Written(ColB, "Utf8", [r \in 1..n |-> IF r = 1 THEN NullCell
                                                    ELSE StrCell(<<"a">>)])>>)

LongC ==
    RowGroup(<<Written(ColA, "Int64", <<NumCell(0), NumCell(1), NumCell(1)>>),
               Written(ColB, "Utf8", <<StrCell(<<"a">>), StrCell(<<"a", "b">>), NullCell>>)>>)

\* files whose scans take several batches of n rows
LongFiles(n) ==
    {File(DriverSchema, <<LongA(n), LongB(n), LongC>>),
     File(DriverSchema, <<LongB(n), LongC, LongA(n)>>),
     File(DriverSchema, <<LongC, LongB(n), LongB(n), LongA(n)>>)}

AgeGroup(cells) == RowGroup(<<Written(ColAge, "Int64", cells)>>)

\* per-group min/max of age: [10,20], [25,35], [40,50], [5,60]
AgeFile ==
    File(<<[name |-> ColAge, dtype |-> "Int64"]>>,
         <<AgeGroup(<<NumCell(10), NumCell(20)>>),
           AgeGroup(<<NumCell(25), NumCell(30), NumCell(35)>>),
           AgeGroup(<<NumCell(40), NumCell(50)>>),
           AgeGroup(<<NumCell(5), NumCell(60), NumCell(33)>>)>>)

UnreadableFile == [readable |-> FALSE, schema |-> <<>>, row_groups |-> <<>>]

AgeGt55 == Comparison(ColAge, "Gt", IntV(55))

DriverPredicates ==
    {Comparison(ColA, "Gt", IntV(0)), Comparison(ColA, "Eq", IntV(0)),
     Comparison(ColA, "Gt", IntV(1)), IsNull(ColA),
     And(Comparison(ColA, "Ge", IntV(0)), Like(ColB, <<"a", "%">>)),
     Not(Comparison(ColA, "Eq", IntV(1))),
     Or(Comparison(ColB, "Eq", StrV(<<"a">>)), Comparison(ColA, "Gt", IntV(1))),
     In(ColA, <<IntV(0)>>),
     Comparison(ColZ, "Eq", IntV(1)),
     And(Comparison(ColA, "Eq", IntV(1)), IsNull(ColZ)),
     Or(In(ColZ, <<IntV(1)>>), Comparison(ColA, "Eq", IntV(1))),
     Not(IsNotNull(ColZ)),
     And(IsNull(ColA), Not(Like(ColZ, <<"%">>))),
     AgeGt55}

(***************************************************************************)
(* filter_count.  Row groups and rows are numbered from 1.                 *)
(***************************************************************************)
SAMPLE_LIMIT == 10

Err(msg) == [kind |-> "Err", msg |-> msg]

schema_names(f) == [i \in 1..Len(f.schema) |-> f.schema[i].name]

RECURSIVE JoinSep(_, _)
JoinSep(ss, sep) ==
    IF ss = <<>> THEN <<>>
    ELSE IF Len(ss) = 1 THEN ss[1]
    ELSE ss[1] \o sep \o JoinSep(Tail(ss), sep)

InSeq(x, s) == \E i \in 1..Len(s) : s[i] = x

\* the first referenced column the schema does not have, as a 0/1-element sequence
FirstMissing(cols, names) == SelectSeq(cols, LAMBDA c : ~InSeq(c, names))

\* lines 753-769: open the file, read the footer, check the referenced columns
Open ==
    /\ pc = "open"
    /\ IF ~file.readable
       THEN /\ result' = Err([what |-> "io"])
            /\ pc' = "done"
       ELSE LET missing == FirstMissing(predicate_columns(predicate), schema_names(file))
            IN  IF missing # <<>>
                THEN /\ result' = Err([what |-> "column not found in schema",
                                       col |-> missing[1],
                                       available |-> JoinSep(schema_names(file), <<",", " ">>)])
                     /\ pc' = "done"
                ELSE /\ pc' = "prune"
                     /\ UNCHANGED result
    /\ UNCHANGED <<file, predicate, driver_vars, skip, mask, parser_vars>>

total_rgs == Len(file.row_groups)

\* the pruning loop counting every row group as skipped
PruneRowGroup_CountAll ==
    /\ pc = "prune"
    /\ rg_idx <= total_rgs
    /\ skip' = CanSkipRowGroup(predicate, file.row_groups[rg_idx])
    /\ IF skip'
       THEN skipped_rgs' = skipped_rgs + 1 /\ UNCHANGED rgs_to_scan
       ELSE rgs_to_scan' = Append(rgs_to_scan, rg_idx) /\ skipped_rgs' = skipped_rgs + 1
    /\ rg_idx' = rg_idx + 1
    /\ UNCHANGED <<file, predicate, pc, pending, decoded, matched_rows, scanned_rows,
                   sample_headers, sample_rows, result, mask, parser_vars>>

\* lines 773-780: one iteration of the pruning loop
PruneRowGroup ==
    /\ pc = "prune"
    /\ rg_idx <= total_rgs
    /\ skip' = CanSkipRowGroup(predicate, file.row_groups[rg_idx])
    /\ IF skip'
       THEN skipped_rgs' = skipped_rgs + 1 /\ UNCHANGED rgs_to_scan
       ELSE rgs_to_scan' = Append(rgs_to_scan, rg_idx) /\ UNCHANGED skipped_rgs
    /\ rg_idx' = rg_idx + 1
    /\ UNCHANGED <<file, predicate, pc, pending, decoded, matched_rows, scanned_rows,
                   sample_headers, sample_rows, result, mask, parser_vars>>

RowsOf(g) == [r \in 1..file.row_groups[g].num_rows |-> <<g, r>>]

\* the RowSelection with select and skip exchanged
RECURSIVE SelectedRows_Exchanged(_, _)
SelectedRows_Exchanged(g, scan) ==
    IF g > total_rgs THEN <<>>
    ELSE (IF InSeq(g, scan) THEN <<>> ELSE RowsOf(g)) \o SelectedRows_Exchanged(g + 1, scan)

\* the rows the RowSelection selects, in file order
RECURSIVE SelectedRows(_, _)
SelectedRows(g, scan) ==
    IF g > total_rgs THEN <<>>
    ELSE (IF InSeq(g, scan) THEN RowsOf(g) ELSE <<>>) \o SelectedRows(g + 1, scan)

\* the reader built over every row group, the skipped ones included
BuildReader_SelectAll ==
    /\ pc = "prune"
    /\ rg_idx > total_rgs
    /\ pending' = SelectedRows(1, [g \in 1..total_rgs |-> g])
    /\ pc' = "scan"
    /\ UNCHANGED <<file, predicate, rg_idx, skipped_rgs, rgs_to_scan, decoded, matched_rows,
                   scanned_rows, sample_headers, sample_rows, result, skip, mask,
                   parser_vars>>

\* lines 781-801: build the reader over the row groups to scan
BuildReader ==
    /\ pc = "prune"
    /\ rg_idx > total_rgs
    /\ pending' = IF rgs_to_scan # <<>> THEN SelectedRows(1, rgs_to_scan) ELSE <<>>
    /\ pc' = "scan"
    /\ UNCHANGED <<file, predicate, rg_idx, skipped_rgs, rgs_to_scan, decoded, matched_rows,
                   scanned_rows, sample_headers, sample_rows, result, skip, mask,
                   parser_vars>>

\* the batch decoded from the given rows
DecodeBatch(rows) ==
    [num_rows |-> Len(rows),
     columns |-> [c \in 1..Len(file.schema) |->
                    [name |-> file.schema[c].name, dtype |-> file.schema[c].dtype,
                     cells |-> [i \in 1..Len(rows) |->
                                  file.row_groups[rows[i][1]].columns[c].cells[rows[i][2]]]]]]

Min(a, b) == IF a < b THEN a ELSE b

\* lines 810-816: render the matching rows until the sample is full
RECURSIVE CollectSample(_, _, _, _)
CollectSample(batch, m, row, acc) ==
    IF row > batch.num_rows THEN acc
    ELSE IF m[row]
    THEN LET vals == [c \in 1..Len(batch.columns) |-> col_val_str(batch.columns[c], row)]
             acc2 == Append(acc, vals)
         IN  IF Len(acc2) >= SAMPLE_LIMIT THEN acc2
             ELSE CollectSample(batch, m, row + 1, acc2)
    ELSE CollectSample(batch, m, row + 1, acc)

\* the batch loop sampling from every batch that contains a match
ScanBatch_Resample ==
    /\ pc = "scan"
    /\ pending # <<>>
    /\ LET k == Min(BatchSize, Len(pending))
           rows == SubSeq(pending, 1, k)
           batch == DecodeBatch(rows)
           m == EvalPredicateBatch(predicate, batch)
       IN  /\ pending' = SubSeq(pending, k + 1, Len(pending))
           /\ decoded' = decoded \o rows
           /\ scanned_rows' = scanned_rows + batch.num_rows
           /\ mask' = m
           /\ matched_rows' = matched_rows + TrueCount(m)
           /\ IF TrueCount(m) > 0
              THEN /\ sample_headers' = [c \in 1..Len(batch.columns) |-> batch.columns[c].name]
                   /\ sample_rows' = CollectSample(batch, m, 1, sample_rows)
              ELSE UNCHANGED <<sample_headers, sample_rows>>
    /\ UNCHANGED <<file, predicate, pc, rg_idx, skipped_rgs, rgs_to_scan, result, skip,
                   parser_vars>>

\* lines 802-818: one batch pulled from the reader and evaluated
ScanBatch ==
    /\ pc = "scan"
    /\ pending # <<>>
    /\ LET k == Min(BatchSize, Len(pending))
           rows == SubSeq(pending, 1, k)
           batch == DecodeBatch(rows)
           m == EvalPredicateBatch(predicate, batch)
       IN  /\ pending' = SubSeq(pending, k + 1, Len(pending))
           /\ decoded' = decoded \o rows
           /\ scanned_rows' = scanned_rows + batch.num_rows
           /\ mask' = m
           /\ matched_rows' = matched_rows + TrueCount(m)
           /\ IF sample_headers = <<>> /\ TrueCount(m) > 0
              THEN /\ sample_headers' = [c \in 1..Len(batch.columns) |-> batch.columns[c].name]
                   /\ sample_rows' = CollectSample(batch, m, 1, sample_rows)
              ELSE UNCHANGED <<sample_headers, sample_rows>>
    /\ UNCHANGED <<file, predicate, pc, rg_idx, skipped_rgs, rgs_to_scan, result, skip,
                   parser_vars>>

\* lines 798-803: the reader fails to build or to decode the next batch
ReadError ==
    /\ pc = "scan"
    /\ pending # <<>>
    /\ result' = Err([what |-> "io"])
    /\ pc' = "done"
    /\ UNCHANGED <<file, predicate, driver_vars, skip, mask, parser_vars>>

\* lines 820-827
Return ==
    /\ pc = "scan"
    /\ pending = <<>>
    /\ result' = [kind |-> "Ok", matched_rows |-> matched_rows, scanned_rows |-> scanned_rows,
                  skipped_rgs |-> skipped_rgs, total_rgs |-> total_rgs,
                  sample_headers |-> sample_headers, sample_rows |-> sample_rows]
    /\ pc' = "done"
    /\ UNCHANGED <<file, predicate, driver_vars, skip, mask, parser_vars>>

Init ==
    /\ file \in DriverFiles(MaxRowGroups) \cup LongFiles(BatchSize)
                    \cup {AgeFile, UnreadableFile}
    /\ predicate \in DriverPredicates
    /\ pc = "open"
    /\ IdleDriver
    /\ result = NoResult
    /\ skip = FALSE
    /\ mask = <<>>
    /\ input = <<>>
    /\ tokens = <<>>
    /\ lex_chars = <<>> /\ parser_pos = 1 /\ stack = <<>>

Next == Open \/ PruneRowGroup \/ BuildReader \/ ScanBatch \/ ReadError \/ Return

Spec == Init /\ [][Next]_vars

(***************************************************************************)
(* Claims about filter_count (Spec).                                       *)
(***************************************************************************)
AgeRun == file = AgeFile /\ predicate = AgeGt55 /\ pc = "done" /\ result.kind = "Ok"

\* C2 as stated: on the 4-group age file, `age > 55` reports 2 skipped row groups
\* (the first and second) of 4 and scans the rows of groups 3 and 4 only.
C2_AsStated ==
    AgeRun => /\ result.skipped_rgs = 2
              /\ result.total_rgs = 4
              /\ rgs_to_scan = <<3, 4>>
              /\ result.scanned_rows = AgeFile.row_groups[3].num_rows
                                          + AgeFile.row_groups[4].num_rows

\* C2 amended: on the 4-group age file, `age > 55` reports 3 skipped row groups
\* (the first, second and third, whose max is below 55) of 4 and scans the rows
\* of group 4 only.
C2_AgeScenario ==
    AgeRun => /\ result.skipped_rgs = 3
              /\ result.total_rgs = 4
              /\ rgs_to_scan = <<4>>
              /\ decoded = <<<<4, 1>>, <<4, 2>>, <<4, 3>>>>
              /\ result.scanned_rows = AgeFile.row_groups[4].num_rows

C2_Witness == AgeRun /\ result.scanned_rows > 0

\* the set of columns named anywhere in a predicate tree
RECURSIVE ReferencedColumns(_)
ReferencedColumns(pred) ==
    IF pred.node \in {"And", "Or"}
    THEN ReferencedColumns(pred.a) \cup ReferencedColumns(pred.b)
    ELSE IF pred.node = "Not" THEN ReferencedColumns(pred.inner)
    ELSE {pred.col}

SchemaNameSet == {file.schema[i].name : i \in 1..Len(file.schema)}

NamesAbsentColumn == file.readable /\ ~(ReferencedColumns(predicate) \subseteq SchemaNameSet)

Contains(text, part) ==
    \E i \in 0..(Len(text) - Len(part)) : SubSeq(text, i + 1, i + Len(part)) = part

\* C3: when any column named anywhere in the predicate is absent from the schema,
\* filter_count returns an error whose message lists every schema column name,
\* and no row group has been pruned and no batch decoded.
C3_UnknownColumn ==
    NamesAbsentColumn =>
        /\ pc \in {"open", "done"}
        /\ rg_idx = 1 /\ skipped_rgs = 0 /\ rgs_to_scan = <<>>
        /\ pending = <<>> /\ decoded = <<>> /\ scanned_rows = 0
        /\ pc = "done" =>
              /\ result.kind = "Err"
              /\ result.msg.what = "column not found in schema"
              /\ result.msg.col \notin SchemaNameSet
              /\ \A n \in SchemaNameSet : Contains(result.msg.available, n)

\* rejected for a column named only on the right of an AND, under a NOT
C3_Witness ==
    /\ pc = "done" /\ result.kind = "Err" /\ NamesAbsentColumn
    /\ predicate = And(IsNull(ColA), Not(Like(ColZ, <<"%">>)))
    /\ Len(file.row_groups) > 0

Returned == pc = "done" /\ result.kind = "Ok"

\* the row groups of the file for which the pruner returns true
Skippable == {g \in 1..total_rgs : CanSkipRowGroup(predicate, file.row_groups[g])}

\* the decoded rows cut into the batches the reader delivered them in
RECURSIVE BatchesOf(_)
BatchesOf(rows) ==
    IF rows = <<>> THEN <<>>
    ELSE LET k == Min(BatchSize, Len(rows))
         IN  <<SubSeq(rows, 1, k)>> \o BatchesOf(SubSeq(rows, k + 1, Len(rows)))

\* the number of true mask entries of each decoded batch
MatchesPerBatch ==
    LET batches == BatchesOf(decoded)
    IN  [i \in 1..Len(batches) |->
            TrueCount(EvalPredicateBatch(predicate, DecodeBatch(batches[i])))]

\* C19: every FilterResult returned by filter_count has total_rgs equal to the
\* number of row groups of the file, skipped_rgs equal to the number of row
\* groups for which the pruner returned true (so skipped_rgs <= total_rgs),
\* matched_rows equal to the sum over all decoded batches of the number of
\* true mask entries, and matched_rows <= scanned_rows.
C19_ResultCounts ==
    Returned =>
        /\ result.total_rgs = Len(file.row_groups)
        /\ result.skipped_rgs = Cardinality(Skippable)
        /\ result.skipped_rgs <= result.total_rgs
        /\ result.matched_rows = SeqSum(MatchesPerBatch)
        /\ result.matched_rows <= result.scanned_rows

\* a result with some row groups skipped and some scanned, several batches
\* decoded, some rows matching and some not
C19_Witness ==
    /\ Returned
    /\ 0 < result.skipped_rgs /\ result.skipped_rgs < result.total_rgs
    /\ Len(BatchesOf(decoded)) > 1
    /\ 0 < result.matched_rows /\ result.matched_rows < result.scanned_rows

\* C20: if the pruner marks every row group skippable, or the file has no row
\* groups, filter_count decodes no batch and returns matched_rows = 0,
\* scanned_rows = 0, empty sample_headers and sample_rows, and
\* skipped_rgs = total_rgs.
C20_AllSkipped ==
    (pc \in {"scan", "done"} /\ Skippable = 1..total_rgs
        /\ (pc = "done" => result.kind = "Ok"))
    => /\ decoded = <<>> /\ pending = <<>>
       /\ pc = "done" =>
             /\ result.matched_rows = 0 /\ result.scanned_rows = 0
             /\ result.sample_headers = <<>> /\ result.sample_rows = <<>>
             /\ result.skipped_rgs = result.total_rgs

\* a file of several row groups, all of them skipped, has been answered
C20_Witness ==
    /\ Returned /\ total_rgs > 1 /\ Skippable = 1..total_rgs
    /\ result.skipped_rgs = total_rgs /\ result.scanned_rows = 0

\* a file without row groups has been answered
C20_EmptyFile == Returned /\ total_rgs = 0 /\ result.scanned_rows = 0

\* the batches decoded so far whose mask has a true entry
MatchingBatches == {i \in 1..Len(MatchesPerBatch) : MatchesPerBatch[i] > 0}

\* a cell as the sample shows it: a null cell is the text NULL
Rendered(col, row) ==
    IF col.cells[row].null THEN <<"N", "U", "L", "L">> ELSE col_val_str(col, row)

\* the first min(SAMPLE_LIMIT, k) matching rows, in row order, of the batch
\* made of the given rows
FirstMatches(rows) ==
    LET batch == DecodeBatch(rows)
        m == EvalPredicateBatch(predicate, batch)
        hits == SelectSeq([r \in 1..batch.num_rows |-> r], LAMBDA r : m[r])
    IN  [j \in 1..Min(SAMPLE_LIMIT, Len(hits)) |->
            [c \in 1..Len(batch.columns) |-> Rendered(batch.columns[c], hits[j])]]

\* the sample the decoded batches call for
ExpectedSample ==
    IF MatchingBatches = {} THEN <<>>
    ELSE FirstMatches(BatchesOf(decoded)[MinOf(MatchingBatches)])

SampleShape ==
    /\ Len(sample_rows) <= SAMPLE_LIMIT
    /\ sample_rows = ExpectedSample
    /\ sample_headers # <<>> <=> matched_rows > 0
    /\ Returned =>
          /\ result.sample_rows = sample_rows /\ result.sample_headers = sample_headers
          /\ result.sample_headers # <<>> <=> result.matched_rows > 0

\* C21: the sample is taken from the first batch that contains a match and
\* never changes afterwards: sample_rows holds at most 10 rows, the first
\* min(10, k) matching rows (in row order) of the first batch whose mask has
\* k > 0 true entries, each null cell rendered as the text NULL; sample_headers
\* is non-empty iff matched_rows > 0; later batches never add to or replace
\* the sample.
C21_SampleFrozen ==
    /\ [](pc \in {"scan", "done"} => SampleShape)
    /\ [][sample_headers # <<>> =>
             (sample_headers' = sample_headers /\ sample_rows' = sample_rows)]_vars

\* a full sample taken from a first batch of more than 10 matches, showing a
\* null cell, with further matching batches decoded after it
C21_Witness ==
    /\ Returned
    /\ Len(result.sample_rows) = SAMPLE_LIMIT
    /\ MatchesPerBatch[1] > SAMPLE_LIMIT
    /\ Cardinality(MatchingBatches) > 1
    /\ \E j \in 1..Len(result.sample_rows) : result.sample_rows[j][2] = <<"N", "U", "L", "L">>

\* the row groups the pruner did not mark, in file order
NotSkipped == SelectSeq([g \in 1..total_rgs |-> g], LAMBDA g : g \notin Skippable)

\* C26: skipped row groups are never decoded: the scan plan selects exactly the
\* row groups for which can_skip_row_group returned false, no row of a skipped
\* row group is ever passed to the evaluator, and scanned_rows equals the sum
\* of the row counts of exactly the non-skipped row groups.
C26_SkippedNeverDecoded ==
    /\ \A i \in 1..Len(decoded) : decoded[i][1] \notin Skippable
    /\ \A i \in 1..Len(pending) : pending[i][1] \notin Skippable
    /\ scanned_rows = Len(decoded)
    /\ (pc = "scan" \/ Returned) => rgs_to_scan = NotSkipped
    /\ Returned =>
          /\ decoded = SelectedRows(1, NotSkipped)
          /\ result.scanned_rows =
                SeqSum([i \in 1..Len(NotSkipped) |-> file.row_groups[NotSkipped[i]].num_rows])

\* a result for a file in which a skipped row group precedes a scanned one
C26_Witness ==
    /\ Returned /\ result.scanned_rows > 0
    /\ \E g \in Skippable : \E h \in 1..total_rgs : h \notin Skippable /\ g < h

(***************************************************************************)
(* PruneSpec: the pruner and the evaluator run on one row group.           *)
(***************************************************************************)
PruneInit ==
    /\ \/ /\ file \in {File(SchemaOf(rg), <<rg>>) : rg \in GenRowGroups(MaxRows)}
          /\ predicate \in GenPredicates
       \/ /\ file \in {File(SchemaOf(rg), <<rg>>) : rg \in ExampleRowGroups}
          /\ predicate \in ExamplePredicates
       \/ /\ file \in {File(SchemaOf(rg), <<rg>>) : rg \in LikeRowGroups(MaxLike)}
          /\ predicate \in LikePredicates(MaxLike)
    /\ pc = "prune"
    /\ IdleDriver
    /\ result = NoResult
    /\ skip = FALSE
    /\ mask = <<>>
    /\ input = <<>>
    /\ tokens = <<>>
    /\ lex_chars = <<>> /\ parser_pos = 1 /\ stack = <<>>

Prune ==
    /\ pc = "prune"
    /\ skip' = CanSkipRowGroup(predicate, file.row_groups[1])
    /\ pc' = "eval"
    /\ UNCHANGED <<file, predicate, driver_vars, result, mask, parser_vars>>

Evaluate ==
    /\ pc = "eval"
    /\ mask' = EvalPredicateBatch(predicate, BatchOf(file.row_groups[1]))
    /\ pc' = "evaluated"
    /\ UNCHANGED <<file, predicate, driver_vars, result, skip, parser_vars>>

PruneNext == Prune \/ Evaluate

PruneSpec == PruneInit /\ [][PruneNext]_vars

(***************************************************************************)
(* Claims about the pruner and the evaluator (PruneSpec).                  *)
(***************************************************************************)
TheRowGroup == file.row_groups[1]
Pruned == pc \in {"eval", "evaluated"}

\* C1: pruning never produces a false negative: when the statistics of the row
\* group are accurate and can_skip_row_group returned true, the evaluator marks
\* no row of the row group.
C1_NoFalseNegative ==
    (pc = "evaluated" /\ Accurate(TheRowGroup) /\ skip) => TrueCount(mask) = 0

\* the interval rules of the pruner, written out
IntervalRule(op, v, mn, mx) ==
    /\ op = "Eq" => (v < mn \/ v > mx)
    /\ op = "Lt" => v <= mn
    /\ op = "Le" => v < mn
    /\ op = "Gt" => v >= mx
    /\ op = "Ge" => v > mx
    /\ op # "Ne"

\* C7: can_skip(A AND B) is true iff can_skip(A) or can_skip(B) is, and
\* can_skip(A OR B) is true iff both can_skip(A) and can_skip(B) are.
C7_AndOrSkip ==
    /\ (Pruned /\ predicate.node = "And") =>
          (skip <=> (CanSkipRowGroup(predicate.a, TheRowGroup)
                        \/ CanSkipRowGroup(predicate.b, TheRowGroup)))
    /\ (Pruned /\ predicate.node = "Or") =>
          (skip <=> (CanSkipRowGroup(predicate.a, TheRowGroup)
                        /\ CanSkipRowGroup(predicate.b, TheRowGroup)))

\* an AND skipped because of its right side alone
C7_Witness ==
    /\ Pruned /\ predicate.node = "And" /\ skip
    /\ ~CanSkipRowGroup(predicate.a, TheRowGroup)
    /\ CanSkipRowGroup(predicate.b, TheRowGroup)

\* C8: can_skip_row_group is false for every Not, IsNotNull, In and Like
\* predicate, whatever the statistics and whatever the sub-predicate of Not.
C8_NeverSkipped ==
    (Pruned /\ predicate.node \in {"Not", "IsNotNull", "In", "Like"}) => ~skip

\* a Not over a skippable sub-predicate has been through the pruner
C8_Witness ==
    /\ Pruned /\ predicate.node = "Not" /\ ~skip
    /\ CanSkipRowGroup(predicate.inner, TheRowGroup)

SameFamily(stats, val) ==
    \/ stats.phys \in {"Int32", "Int64"} /\ val.kind = "Int"
    \/ stats.phys \in {"Float", "Double"} /\ val.kind = "Float"

\* C9: for a Comparison of a literal with a column of the same numeric family
\* that has a recorded min and max, can_skip is exactly the interval rule:
\* Eq iff v < min or v > max, Lt iff v <= min, Le iff v < min, Gt iff v >= max,
\* Ge iff v > max, Ne never.
C9_IntervalRules ==
    LET stats == FindColStats(predicate.col, TheRowGroup)
    IN  (/\ Pruned /\ predicate.node = "Comparison"
         /\ stats.present /\ stats.min.some /\ stats.max.some
         /\ SameFamily(stats, predicate.val))
        => (skip <=> IntervalRule(predicate.op, predicate.val.num, stats.min.v, stats.max.v))

\* min = 10, max = 20 and `col > 25` was skipped
C9_Witness ==
    /\ Pruned /\ skip
    /\ predicate = Comparison(ColA, "Gt", IntV(25))
    /\ FindColStats(ColA, TheRowGroup).min = Some(10)
    /\ FindColStats(ColA, TheRowGroup).max = Some(20)

\* C10: the interval rules are applied with int-float coercion in both
\* directions: a float literal against integer min/max and an integer literal
\* against float min/max.
C10_CoercionBothWays ==
    LET stats == FindColStats(predicate.col, TheRowGroup)
        val == predicate.val
    IN  (/\ Pruned /\ predicate.node = "Comparison"
         /\ stats.present /\ stats.min.some /\ stats.max.some)
        => /\ (stats.phys \in {"Int32", "Int64"} /\ val.kind = "Float") =>
                 (skip <=> IntervalRule(predicate.op, val.num, AsF64(stats.min.v),
                                        AsF64(stats.max.v)))
           /\ (stats.phys \in {"Float", "Double"} /\ val.kind = "Int") =>
                 (skip <=> IntervalRule(predicate.op, AsF64(val.num), stats.min.v,
                                        stats.max.v))

\* the column chunk named col carries statistics whose null count is recorded as zero
KnownNoNulls(col, rg) ==
    \E i \in 1..Len(rg.columns) :
        /\ rg.columns[i].name = col
        /\ rg.columns[i].stats.present
        /\ rg.columns[i].stats.null_count = Some(0)

\* C11: can_skip(IsNull(col)) is true iff the null count of the column for the
\* row group is known and equal to zero; it is false when the column has no
\* statistics, when the null count is unknown and when it is positive.
C11_IsNullSkip ==
    (Pruned /\ predicate.node = "IsNull") =>
        (skip <=> KnownNoNulls(predicate.col, TheRowGroup))

\* IS NULL on a column whose statistics record no nulls was skipped
C11_Witness ==
    /\ Pruned /\ predicate = IsNull(ColA) /\ skip
    /\ FindColStats(ColA, TheRowGroup).null_count = Some(0)

TheBatch == BatchOf(TheRowGroup)
Evaluated == pc = "evaluated"
LeafNodes == {"Comparison", "In", "Like", "IsNull", "IsNotNull"}

\* the cells of the batch column named col (the column is in the batch)
CellsOf(col) == TheBatch.columns[IndexOf(col, TheBatch.columns)].cells

\* C12: in every evaluated batch a null cell never satisfies a comparison with
\* any of the six operators, never satisfies IN whatever the value list and
\* never satisfies LIKE whatever the pattern (`%` included); it satisfies
\* IS NULL and does not satisfy IS NOT NULL.
C12_NullCell ==
    (/\ Evaluated /\ predicate.node \in LeafNodes
     /\ IndexOf(predicate.col, TheBatch.columns) # 0)
    => \A r \in 1..TheBatch.num_rows :
          CellsOf(predicate.col)[r].null => (mask[r] <=> predicate.node = "IsNull")

\* LIKE '%' evaluated on a text column holding a null and a non-null cell:
\* the non-null row is marked
C12_Witness ==
    /\ Evaluated /\ predicate = Like(ColA, <<"%">>)
    /\ \E r, q \in 1..TheBatch.num_rows :
          CellsOf(ColA)[r].null /\ ~CellsOf(ColA)[q].null /\ mask[q]

\* pred contains no IS NULL / IS NOT NULL node
RECURSIVE NoNullTest(_)
NoNullTest(pred) ==
    IF pred.node \in {"And", "Or"} THEN NoNullTest(pred.a) /\ NoNullTest(pred.b)
    ELSE IF pred.node = "Not" THEN NoNullTest(pred.inner)
    ELSE pred.node \notin {"IsNull", "IsNotNull"}

\* every column pred references is in the batch and null in row r
AllReferencedNull(pred, r) ==
    \A c \in ReferencedColumns(pred) :
        IndexOf(c, TheBatch.columns) # 0 /\ CellsOf(c)[r].null

\* C13: for every predicate that contains no IS NULL / IS NOT NULL node
\* (predicates built with NOT, AND and OR included), a row in which every
\* referenced column is null is not marked as matching by the evaluator.
C13_NullRowsNotMatching ==
    (Evaluated /\ NoNullTest(predicate))
    => \A r \in 1..TheBatch.num_rows : AllReferencedNull(predicate, r) => ~mask[r]

\* element type of the batch column named col (the column is in the batch)
DTypeOf(col) == TheBatch.columns[IndexOf(col, TheBatch.columns)].dtype

\* the leaf sub-expressions for which the evaluator has nothing to compare
Degraded(pred) ==
    /\ pred.node \in LeafNodes
    /\ \/ IndexOf(pred.col, TheBatch.columns) = 0
       \/ /\ pred.node = "Comparison"
          /\ \/ DTypeOf(pred.col) = "Utf8" /\ pred.val.kind # "Str"
             \/ DTypeOf(pred.col) = "Boolean" /\ pred.val.kind # "Bool"
             \/ pred.val.kind = "Null"
       \/ pred.node = "Like" /\ DTypeOf(pred.col) # "Utf8"

\* the predicate and its direct sub-expressions
SubExpressions(pred) ==
    {pred} \cup (IF pred.node \in {"And", "Or"} THEN {pred.a, pred.b}
                 ELSE IF pred.node = "Not" THEN {pred.inner} ELSE {})

\* C14: the evaluator returns a mask with exactly one true/false entry per row
\* for every predicate and batch, and a leaf whose column is missing from the
\* batch, a comparison whose literal kind does not agree with the column type
\* (text column with non-text literal, boolean column with non-boolean literal,
\* any column with NULL literal) and a LIKE on a non-text column each yield an
\* all-false mask for that sub-expression.
C14_TotalSoft ==
    Evaluated =>
        /\ mask \in [1..TheBatch.num_rows -> BOOLEAN]
        /\ Degraded(predicate) => mask = FalseArr(TheBatch.num_rows)
        /\ \A sub \in SubExpressions(predicate) :
              Degraded(sub) => EvalPredicateBatch(sub, TheBatch) = FalseArr(TheBatch.num_rows)

\* a text column of non-null cells compared with an integer literal: no row marked
C14_Witness ==
    /\ Evaluated /\ predicate = Comparison(ColA, "Ne", IntV(0))
    /\ DTypeOf(ColA) = "Utf8" /\ TheBatch.num_rows = MaxRows
    /\ \A r \in 1..TheBatch.num_rows : ~CellsOf(ColA)[r].null
    /\ mask = FalseArr(MaxRows)

\* `v op w` as a comparison of two numbers
NumCompare(v, op, w) ==
    \/ op = "Eq" /\ v = w
    \/ op = "Ne" /\ v # w
    \/ op = "Lt" /\ v < w
    \/ op = "Le" /\ v <= w
    \/ op = "Gt" /\ v > w
    \/ op = "Ge" /\ v >= w

IntDTypes == {"Int8", "Int16", "Int32", "Int64"}
FloatDTypes == {"Float32", "Float64"}

\* C15: a Comparison is evaluated element-wise on integer columns of every
\* width: for an 8-, 16-, 32- or 64-bit integer column each non-null cell is
\* widened to 64 bits and the row is marked iff the cell compares to the
\* integer literal under the operator.
C15_EveryIntWidth ==
    (/\ Evaluated /\ predicate.node = "Comparison"
     /\ IndexOf(predicate.col, TheBatch.columns) # 0
     /\ DTypeOf(predicate.col) \in IntDTypes /\ predicate.val.kind = "Int")
    => \A r \in 1..TheBatch.num_rows :
          ~CellsOf(predicate.col)[r].null =>
              (mask[r] <=> NumCompare(CellsOf(predicate.col)[r].num, predicate.op,
                                      predicate.val.num))

\* C16: integer and float literals are cross-coercible in the evaluator without
\* changing the meaning of the comparison: for an integer column and a float
\* literal L, and for a float column and an integer literal L, a non-null cell
\* v is marked iff `v op L` holds as a comparison of the two numbers (on an
\* integer column `col = 15.5` marks no row and `col >= 20.5` does not mark 20).
C16_CrossCoercion ==
    (/\ Evaluated /\ predicate.node = "Comparison"
     /\ IndexOf(predicate.col, TheBatch.columns) # 0)
    => \A r \in 1..TheBatch.num_rows :
          LET cell == CellsOf(predicate.col)[r]
              val == predicate.val
          IN  /\ (DTypeOf(predicate.col) \in {"Int32", "Int64"} /\ val.kind = "Float"
                    /\ ~cell.null)
                 => (mask[r] <=> NumCompare(AsF64(cell.num), predicate.op, val.num))
              /\ (DTypeOf(predicate.col) \in FloatDTypes /\ val.kind = "Int" /\ ~cell.null)
                 => (mask[r] <=> NumCompare(cell.num, predicate.op, AsF64(val.num)))

\* C17: for every column, value list and batch the mask of In{column, values}
\* equals the row-wise logical OR of the masks of `column = v` for each v in
\* the list (values of a kind that does not fit the column contribute
\* nothing), and an empty value list yields an all-false mask.
C17_InIsOrOfEq ==
    (Evaluated /\ predicate.node = "In") =>
        /\ mask = [r \in 1..TheBatch.num_rows |->
                      \E k \in 1..Len(predicate.vals) :
                          EvalPredicateBatch(Comparison(predicate.col, "Eq", predicate.vals[k]),
                                             TheBatch)[r]]
        /\ predicate.vals = <<>> => mask = FalseArr(TheBatch.num_rows)

\* a list mixing a text, an integer and a boolean value on an integer column:
\* the row equal to the integer is marked, the other is not
C17_Witness ==
    /\ Evaluated /\ predicate = In(ColA, <<StrV(<<"a">>), IntV(0), BoolV(TRUE)>>)
    /\ DTypeOf(ColA) = "Int64"
    /\ \E r, q \in 1..TheBatch.num_rows : mask[r] /\ ~mask[q]

\* number of text characters position k of pattern p covers, g giving the
\* number covered by each `%`
Cover(p, g, k) == IF p[k] = "%" THEN g[k] ELSE 1

\* number of text characters covered before position k of the pattern
RECURSIVE OffsetOf(_, _, _)
OffsetOf(p, g, k) == IF k = 1 THEN 0 ELSE OffsetOf(p, g, k - 1) + Cover(p, g, k - 1)

\* SQL wildcard semantics: the text can be split so that each `%` covers zero
\* or more characters, each `_` exactly one, each literal character itself,
\* and the whole text is consumed
SqlLike(s, p) ==
    \E g \in [{k \in 1..Len(p) : p[k] = "%"} -> 0..Len(s)] :
        /\ OffsetOf(p, g, Len(p) + 1) = Len(s)
        /\ \A k \in 1..Len(p) : p[k] \notin {"%", "_"} => s[OffsetOf(p, g, k) + 1] = p[k]

\* the documented examples: <<pattern, text, matches>>
LikeExamples ==
    {<<<<"f", "o", "o", "%">>, <<"f", "o", "o", "b", "a", "r">>, TRUE>>,
     <<<<"f", "o", "o", "%">>, <<"f", "o", "o">>, TRUE>>,
     <<<<"f", "o", "o", "%">>, <<"b", "a", "r", "f", "o", "o">>, FALSE>>,
     <<<<"f", "_", "o">>, <<"f", "o", "o">>, TRUE>>,
     <<<<"f", "_", "o">>, <<"f", "o">>, FALSE>>,
     <<<<"f", "_", "o">>, <<"f", "o", "o", "o">>, FALSE>>,
     <<<<"%">>, <<>>, TRUE>>,
     <<<<"%">>, <<"f", "o", "o", "b", "a", "r">>, TRUE>>,
     <<<<>>, <<>>, TRUE>>,
     <<<<>>, <<"f">>, FALSE>>}

\* C18: LIKE matching agrees with the SQL wildcard semantics for every text
\* and pattern; in particular `foo%` matches `foobar` and `foo` but not
\* `barfoo`, `f_o` matches `foo` but not `fo` or `fooo`, `%` matches every
\* non-null string, the empty one included, and the empty pattern matches
\* only the empty string.
C18_LikeSqlSemantics ==
    (/\ Evaluated /\ predicate.node = "Like"
     /\ IndexOf(predicate.col, TheBatch.columns) # 0 /\ DTypeOf(predicate.col) = "Utf8")
    => \A r \in 1..TheBatch.num_rows :
          LET cell == CellsOf(predicate.col)[r]
          IN  ~cell.null =>
                /\ mask[r] <=> SqlLike(cell.str, predicate.pattern)
                /\ \A e \in LikeExamples :
                      (predicate.pattern = e[1] /\ cell.str = e[2]) => mask[r] = e[3]
                /\ predicate.pattern = <<"%">> => mask[r]
                /\ predicate.pattern = <<>> => (mask[r] <=> cell.str = <<>>)

\* `foo%` evaluated on the text `foobar`: the row is marked
C18_Witness ==
    /\ Evaluated /\ predicate = Like(ColA, <<"f", "o", "o", "%">>)
    /\ CellsOf(ColA) = <<StrCell(<<"f", "o", "o", "b", "a", "r">>)>>
    /\ mask = <<TRUE>>

\* the statistics a Comparison on col would need are not usable
Unusable(col, val, rg) ==
    \/ \A i \in 1..Len(rg.columns) : rg.columns[i].name # col
    \/ \E i \in 1..Len(rg.columns) :
          /\ rg.columns[i].name = col
          /\ \/ ~rg.columns[i].stats.present
             \/ ~rg.columns[i].stats.min.some
             \/ ~rg.columns[i].stats.max.some
    \/ val.kind \in {"Str", "Bool", "Null"}

\* C25: can_skip_row_group returns false for a Comparison whenever the needed
\* statistics are not usable: the column is not present in the row group, the
\* column has no statistics, its min or its max is missing, or the literal is
\* a string, a boolean or NULL.
C25_UnusableStats ==
    (Pruned /\ predicate.node = "Comparison"
        /\ Unusable(predicate.col, predicate.val, TheRowGroup))
    => ~skip

\* `col > MaxVal + 1` on a column whose max is missing was not skipped,
\* although every cell is below the literal
C25_Witness ==
    /\ Pruned /\ ~skip
    /\ predicate = Comparison(ColA, "Gt", IntV(MaxVal + 1))
    /\ FindColStats(ColA, TheRowGroup).present
    /\ FindColStats(ColA, TheRowGroup).min.some
    /\ ~FindColStats(ColA, TheRowGroup).max.some
    /\ NonNullNums(TheRowGroup.columns[1].cells) # {}

(***************************************************************************)
(* Lexer.                                                                  *)
(***************************************************************************)
IsWhitespace(c) == c = " "
IsQuote(c) == c \in {"'", "\""}
Reserved == {"(", ")", ",", "=", "'", "\"", "<", ">", "!"}

\* the loop reading a string literal, ending at the first quote q whether or
\* not a backslash precedes it
RECURSIVE ReadString_NoEscape(_, _, _)
ReadString_NoEscape(chars, q, s) ==
    IF chars = <<>> THEN [tok |-> s, rest |-> <<>>]
    ELSE IF Head(chars) = q THEN [tok |-> Append(s, q), rest |-> Tail(chars)]
    ELSE ReadString_NoEscape(Tail(chars), q, Append(s, Head(chars)))

\* lines 233-252: the loop reading a string literal opened by the quote q;
\* s is the token so far
RECURSIVE ReadString(_, _, _)
ReadString(chars, q, s) ==
    IF chars = <<>> THEN [tok |-> s, rest |-> <<>>]
    ELSE LET ch == Head(chars)
             rest == Tail(chars)
         IN  IF ch = "\\"
             THEN IF rest # <<>> /\ IsQuote(Head(rest))
                  THEN ReadString(Tail(rest), q, Append(s, Head(rest)))
                  ELSE ReadString(rest, q, Append(s, "\\"))
             ELSE IF ch = q THEN [tok |-> Append(s, ch), rest |-> rest]
             ELSE ReadString(rest, q, Append(s, ch))

\* the loop reading an identifier or number, stopping at a point as well
RECURSIVE ReadWord_StopAtPoint(_, _)
ReadWord_StopAtPoint(chars, word) ==
    IF chars = <<>> THEN [tok |-> word, rest |-> <<>>]
    ELSE IF IsWhitespace(Head(chars)) \/ Head(chars) \in Reserved \cup {"."}
    THEN [tok |-> word, rest |-> chars]
    ELSE ReadWord_StopAtPoint(Tail(chars), Append(word, Head(chars)))

\* lines 274-281: the loop reading an identifier or number
RECURSIVE ReadWord(_, _)
ReadWord(chars, word) ==
    IF chars = <<>> THEN [tok |-> word, rest |-> <<>>]
    ELSE IF IsWhitespace(Head(chars)) \/ Head(chars) \in Reserved
    THEN [tok |-> word, rest |-> chars]
    ELSE ReadWord(Tail(chars), Append(word, Head(chars)))

\* lines 224-284: one iteration of the `while` of tokenize, from the characters
\* still to read and the tokens so far
TokenizeIter(chars, toks) ==
    LET c == Head(chars)
        rest == Tail(chars)
    IN  IF IsWhitespace(c) THEN [chars |-> rest, toks |-> toks]
        ELSE IF IsQuote(c)
        THEN LET r == ReadString(rest, c, <<c>>)
             IN  [chars |-> r.rest, toks |-> Append(toks, r.tok)]
        ELSE IF c \in {"<", ">", "!", "="}
        THEN IF rest # <<>> /\ c \in {"<", ">", "!"} /\ Head(rest) = "="
             THEN [chars |-> Tail(rest), toks |-> Append(toks, <<c, "=">>)]
             ELSE [chars |-> rest, toks |-> Append(toks, <<c>>)]
        ELSE IF c \in {"(", ")", ","}
        THEN [chars |-> rest, toks |-> Append(toks, <<c>>)]
        ELSE LET w == ReadWord(chars, <<>>)
             IN  [chars |-> w.rest,
                  toks |-> IF w.tok # <<>> THEN Append(toks, w.tok) ELSE toks]

\* line 223: the `while` of tokenize
RECURSIVE TokenizeLoop(_, _)
TokenizeLoop(chars, toks) ==
    IF chars = <<>> THEN toks
    ELSE LET n == TokenizeIter(chars, toks)
         IN  TokenizeLoop(n.chars, n.toks)

tokenize(text) == TokenizeLoop(text, <<>>)

(***************************************************************************)
(* Recursive descent parser.  Positions are numbered from 1; a parse       *)
(* step yields Ok with the position after it, Err with the message, or     *)
(* Panic when the Rust code would panic.                                   *)
(***************************************************************************)
LowerCase == <<"a", "b", "c", "d", "e", "f", "g", "i", "k", "l", "n", "o", "r", "s", "t",
               "u", "x", "z">>
UpperCase == <<"A", "B", "C", "D", "E", "F", "G", "I", "K", "L", "N", "O", "R", "S", "T",
               "U", "X", "Z">>

UpperChar(c) ==
    IF \E i \in 1..Len(LowerCase) : LowerCase[i] = c
    THEN UpperCase[CHOOSE i \in 1..Len(LowerCase) : LowerCase[i] = c]
    ELSE c

to_uppercase(t) == [i \in 1..Len(t) |-> UpperChar(t[i])]
eq_ignore_ascii_case(t, u) == to_uppercase(t) = to_uppercase(u)

EOF == <<>>
peek(toks, pos) == IF pos <= Len(toks) THEN toks[pos] ELSE EOF
\* peek_upper comparing the token as written
peek_upper_AsWritten(toks, pos) == peek(toks, pos)
peek_upper(toks, pos) == to_uppercase(peek(toks, pos))

POk(pred, pos) == [st |-> "Ok", pred |-> pred, pos |-> pos]
VOk(val, pos) == [st |-> "Ok", val |-> val, pos |-> pos]
PErr(what, tok) == [st |-> "Err", what |-> what, tok |-> tok]
PPanic == [st |-> "Panic"]

KwOr == <<"O", "R">>
KwAnd == <<"A", "N", "D">>
KwNot == <<"N", "O", "T">>
KwIs == <<"I", "S">>
KwIn == <<"I", "N">>
KwLike == <<"L", "I", "K", "E">>
KwNull == <<"N", "U", "L", "L">>

\* Ok with the text between the quotes, or Panic: `s[1..s.len() - 1]` of a
\* one-character s is a slice that starts after its end
strip_quotes(t) ==
    IF t # <<>> /\ IsQuote(t[1]) /\ t[Len(t)] = t[1]
    THEN IF Len(t) - 1 < 1 THEN [st |-> "Panic", str |-> <<>>]
         ELSE [st |-> "Ok", str |-> SubSeq(t, 2, Len(t) - 1)]
    ELSE [st |-> "Ok", str |-> t]

IsDigit(c) == \E i \in 1..10 : Digits[i] = c
DigitVal(c) == (CHOOSE i \in 1..10 : Digits[i] = c) - 1
AllDigits(t) == \A i \in 1..Len(t) : IsDigit(t[i])

RECURSIVE DigitsVal(_)
DigitsVal(t) == IF t = <<>> THEN 0 ELSE DigitsVal(SubSeq(t, 1, Len(t) - 1)) * 10 + DigitVal(t[Len(t)])

RECURSIVE Pow10(_)
Pow10(k) == IF k = 0 THEN 1 ELSE 10 * Pow10(k - 1)

HasSign(t) == t # <<>> /\ t[1] \in {"+", "-"}
Unsigned(t) == IF HasSign(t) THEN Tail(t) ELSE t
Signed(t, n) == IF t # <<>> /\ t[1] = "-" THEN 0 - n ELSE n

\* str::parse::<i64> (texts within the 64-bit range)
IsIntText(t) == Unsigned(t) # <<>> /\ AllDigits(Unsigned(t))
IntOfText(t) == Signed(t, DigitsVal(Unsigned(t)))

DotAt(t) == IF \E i \in 1..Len(t) : t[i] = "." THEN CHOOSE i \in 1..Len(t) : t[i] = "." ELSE 0

\* str::parse::<f64> for plain decimal texts: digits with at most one point and
\* at least one digit
IsFloatText(t) ==
    LET u == Unsigned(t)
        d == DotAt(u)
    IN  IF d = 0 THEN u # <<>> /\ AllDigits(u)
        ELSE /\ AllDigits(SubSeq(u, 1, d - 1)) /\ AllDigits(SubSeq(u, d + 1, Len(u)))
             /\ Len(u) > 1

FloatOfText(t) ==
    LET u == Unsigned(t)
        d == DotAt(u)
        whole == IF d = 0 THEN u ELSE SubSeq(u, 1, d - 1)
        frac == IF d = 0 THEN <<>> ELSE SubSeq(u, d + 1, Len(u))
    IN  Signed(t, DigitsVal(whole) * FloatScale
                     + (DigitsVal(frac) * FloatScale) \div Pow10(Len(frac)))

\* line 199: Value::Str of the stripped token
StrOf(q, pos) == IF q.st = "Panic" THEN PPanic ELSE VOk(StrV(q.str), pos)

parse_value(toks, pos) ==
    LET t == peek(toks, pos)
    IN  IF pos > Len(toks) THEN PErr("expected value, got EOF", EOF)
        ELSE IF t \in {KwNull, <<"n", "u", "l", "l">>} THEN VOk(NullV, pos + 1)
        ELSE IF t \in {<<"t", "r", "u", "e">>, <<"T", "R", "U", "E">>}
        THEN VOk(BoolV(TRUE), pos + 1)
        ELSE IF t \in {<<"f", "a", "l", "s", "e">>, <<"F", "A", "L", "S", "E">>}
        THEN VOk(BoolV(FALSE), pos + 1)
        ELSE IF IsQuote(t[1]) THEN StrOf(strip_quotes(t), pos + 1)
        ELSE IF IsIntText(t) THEN VOk(IntV(IntOfText(t)), pos + 1)
        ELSE IF IsFloatText(t) THEN VOk(FloatV(FloatOfText(t)), pos + 1)
        ELSE VOk(StrV(t), pos + 1)

\* Ok with the position after the token, or the `expected` error
expect(toks, pos, kw) ==
    IF pos > Len(toks) THEN PErr("expected token, got EOF", kw)
    ELSE IF eq_ignore_ascii_case(toks[pos], kw) THEN [st |-> "Ok", pos |-> pos + 1]
    ELSE PErr("expected token, got other", toks[pos])

CmpOpOf(t) ==
    CASE t = <<"=">> -> "Eq"
      [] t \in {<<"!", "=">>, <<"<", ">">>} -> "Ne"
      [] t = <<"<">> -> "Lt"
      [] t = <<"<", "=">> -> "Le"
      [] t = <<">">> -> "Gt"
      [] t = <<">", "=">> -> "Ge"
      [] OTHER -> "None"

\* `?` on a step that yields no predicate of its own: the error, or pred at the
\* position the step reached
Then(e, pred) == IF e.st # "Ok" THEN e ELSE POk(pred, e.pos)

RECURSIVE InListLoop(_, _, _, _)

\* lines 153-164: one value of an IN list has been parsed
InListStep(toks, col, vals, v) ==
    IF v.st # "Ok" THEN v
    ELSE IF v.pos > Len(toks) THEN PErr("unexpected EOF in IN list", EOF)
    ELSE IF toks[v.pos] = <<",">> THEN InListLoop(toks, v.pos + 1, col, Append(vals, v.val))
    ELSE IF toks[v.pos] = <<")">> THEN POk(In(col, Append(vals, v.val)), v.pos + 1)
    ELSE PErr("expected ',' or ')' in IN list", toks[v.pos])

\* lines 152-165: the loop over the values of an IN list
InListLoop(toks, pos, col, vals) == InListStep(toks, col, vals, parse_value(toks, pos))

\* lines 150-151: the opening parenthesis of an IN list has been expected
InList(toks, col, e) == IF e.st # "Ok" THEN e ELSE InListLoop(toks, e.pos, col, <<>>)

\* lines 171-175: the pattern token of LIKE has been stripped of its quotes
LikeOf(col, q, pos) == IF q.st = "Panic" THEN PPanic ELSE POk(Like(col, q.str), pos)

\* lines 188-189: the value of a comparison has been parsed
ComparisonOf(col, op, v) == IF v.st # "Ok" THEN v ELSE POk(Comparison(col, op, v.val), v.pos)

\* lines 132-189: the atom after an opening parenthesis has been ruled out
AtomTail(toks, pos) ==
    IF pos > Len(toks) THEN PErr("expected column name, got EOF", EOF)
    ELSE IF peek_upper(toks, pos + 1) = KwIs
    THEN IF peek_upper(toks, pos + 2) = KwNot
         THEN Then(expect(toks, pos + 3, KwNull), IsNotNull(toks[pos]))
         ELSE Then(expect(toks, pos + 2, KwNull), IsNull(toks[pos]))
    ELSE IF peek_upper(toks, pos + 1) = KwIn
    THEN InList(toks, toks[pos], expect(toks, pos + 2, <<"(">>))
    ELSE IF peek_upper(toks, pos + 1) = KwLike
    THEN IF pos + 2 > Len(toks) THEN PErr("expected pattern after LIKE", EOF)
         ELSE LikeOf(toks[pos], strip_quotes(toks[pos + 2]), pos + 3)
    ELSE IF pos + 1 > Len(toks) THEN PErr("expected comparison operator, got EOF", EOF)
    ELSE IF CmpOpOf(toks[pos + 1]) = "None"
    THEN PErr("expected comparison operator", toks[pos + 1])
    ELSE ComparisonOf(toks[pos], CmpOpOf(toks[pos + 1]), parse_value(toks, pos + 2))

RECURSIVE parse_or(_, _)
RECURSIVE parse_and(_, _)
RECURSIVE parse_not(_, _)
RECURSIVE parse_atom(_, _)
RECURSIVE OrLoop(_, _, _)
RECURSIVE AndLoop(_, _, _)

\* lines 128-130: the expression inside parentheses has been parsed
ParenClose(toks, inner) ==
    IF inner.st # "Ok" THEN inner ELSE Then(expect(toks, inner.pos, <<")">>), inner.pred)

parse_atom(toks, pos) ==
    IF peek(toks, pos) = <<"(">>
    THEN ParenClose(toks, parse_or(toks, pos + 1))
    ELSE AtomTail(toks, pos)

\* lines 119-120
NotOf(inner) == IF inner.st # "Ok" THEN inner ELSE POk(Not(inner.pred), inner.pos)

parse_not(toks, pos) ==
    IF peek_upper(toks, pos) = KwNot
    THEN NotOf(parse_not(toks, pos + 1))
    ELSE parse_atom(toks, pos)

\* lines 111-112
AndStep(toks, left, right) ==
    IF right.st # "Ok" THEN right ELSE AndLoop(toks, And(left, right.pred), right.pos)

\* lines 109-113: the `while` of parse_and
AndLoop(toks, left, pos) ==
    IF peek_upper(toks, pos) = KwAnd
    THEN AndStep(toks, left, parse_not(toks, pos + 1))
    ELSE POk(left, pos)

\* line 108
AndFirst(toks, left) == IF left.st # "Ok" THEN left ELSE AndLoop(toks, left.pred, left.pos)

parse_and(toks, pos) == AndFirst(toks, parse_not(toks, pos))

\* lines 102-103
OrStep(toks, left, right) ==
    IF right.st # "Ok" THEN right ELSE OrLoop(toks, Or(left, right.pred), right.pos)

\* the `while` of parse_or taking only a NOT-level operand on the right
OrLoop_RightNot(toks, left, pos) ==
    IF peek_upper(toks, pos) = KwOr
    THEN OrStep(toks, left, parse_not(toks, pos + 1))
    ELSE POk(left, pos)

\* lines 100-104: the `while` of parse_or
OrLoop(toks, left, pos) ==
    IF peek_upper(toks, pos) = KwOr
    THEN OrStep(toks, left, parse_and(toks, pos + 1))
    ELSE POk(left, pos)

\* line 99
OrFirst(toks, left) == IF left.st # "Ok" THEN left ELSE OrLoop(toks, left.pred, left.pos)

parse_or(toks, pos) == OrFirst(toks, parse_and(toks, pos))

\* Parser::parse without the check for trailing tokens
ParseEnd_IgnoreRest(toks, p) ==
    IF p.st = "Panic" THEN [kind |-> "Panic"]
    ELSE IF p.st = "Err" THEN [kind |-> "Err", what |-> p.what, tok |-> p.tok]
    ELSE [kind |-> "Ok", pred |-> p.pred]

\* lines 93-96: the check for trailing tokens; the Result of the parse, or Panic
ParseEnd(toks, p) ==
    IF p.st = "Panic" THEN [kind |-> "Panic"]
    ELSE IF p.st = "Err" THEN [kind |-> "Err", what |-> p.what, tok |-> p.tok]
    ELSE IF p.pos <= Len(toks)
    THEN [kind |-> "Err", what |-> "unexpected token", tok |-> toks[p.pos]]
    ELSE [kind |-> "Ok", pred |-> p.pred]

\* Parser::parse
parse(toks) == ParseEnd(toks, parse_or(toks, 1))

parse_predicate(expr) == parse(tokenize(expr))

(***************************************************************************)
(* Inputs of the parser: every concatenation of at most MaxPieces lexical  *)
(* pieces, and the expressions of the documented examples.                 *)
(***************************************************************************)
Pieces ==
    {<<"a">>, <<"1">>, <<"'">>, <<" ">>, <<"=">>, <<"<">>, <<">">>, <<"!">>,
     <<"(">>, <<")">>, <<",">>, <<" ", "I", "N", " ">>, <<" ", "N", "O", "T", " ">>}

\* the expressions of at most n pieces
GenInputs(n) == {Join(ps) : ps \in SeqsUpTo(Pieces, 0, n)}

ExampleInputs ==
    {<<"a", " ", "=", " ", "'">>,
     <<"a", " ", "L", "I", "K", "E", " ", "\"">>,
     <<"c", "o", "l", " ", "I", "N", " ", "(", ")">>,
     <<"a", " ", "<", ">", " ", "1">>,
     <<"a", " ", "!", "=", " ", "1">>,
     <<"a", " ", "I", "S", " ", "N", "O", "T", " ", "N", "U", "L", "L">>,
     <<"a", " ", "I", "N", " ", "(", "1", ",", " ", "'", "x", "'", ")">>,
     <<"(", "a", " ", "=", " ", "1", " ", "O", "R", " ", "b", " ", "=", " ", "2", ")", " ",
       "A", "N", "D", " ", "c", " ", "=", " ", "3">>,
     <<"c", "i", "t", "y", " ", "I", "N", " ", "(", "'", "A", "'", ",", "'", "B", "'", ")">>,
     <<"a", "g", "e", "<", "=", "3", "0">>,
     <<"a", " ", "i", "s", " ", "n", "o", "t", " ", "n", "u", "l", "l", " ", "o", "r", " ", "n", "o", "t", " ", "b", " ", "l", "i", "k", "e", " ", "'", "x", "%", "'", " ", "a", "n", "d", " ", "c", " ", "i", "n", " ", "(", "1", ")">>}

(***************************************************************************)
(* Inputs of the parser: predicates written out as text, with the fewest   *)
(* parentheses the grammar allows and the keywords in a chosen letter case.*)
(***************************************************************************)
LowerChar(c) ==
    IF \E i \in 1..Len(UpperCase) : UpperCase[i] = c
    THEN LowerCase[CHOOSE i \in 1..Len(UpperCase) : UpperCase[i] = c]
    ELSE c

Styles == {"upper", "lower", "mixed"}

\* a keyword as written: OR, or, Or
Cased(kw, style) ==
    CASE style = "upper" -> kw
      [] style = "lower" -> [i \in 1..Len(kw) |-> LowerChar(kw[i])]
      [] style = "mixed" -> [i \in 1..Len(kw) |-> IF i % 2 = 1 THEN kw[i] ELSE LowerChar(kw[i])]

OpText(op) ==
    CASE op = "Eq" -> <<"=">>
      [] op = "Ne" -> <<"!", "=">>
      [] op = "Lt" -> <<"<">>
      [] op = "Le" -> <<"<", "=">>
      [] op = "Gt" -> <<">">>
      [] op = "Ge" -> <<">", "=">>

ValueText(v) ==
    CASE v.kind = "Int" -> IntToText(v.num)
      [] v.kind = "Str" -> <<"'">> \o v.str \o <<"'">>
      [] v.kind = "Bool" -> IF v.bool THEN <<"t", "r", "u", "e">> ELSE <<"f", "a", "l", "s", "e">>
      [] v.kind = "Null" -> KwNull

RECURSIVE ValuesText(_)
ValuesText(vals) ==
    IF vals = <<>> THEN <<>>
    ELSE IF Len(vals) = 1 THEN ValueText(vals[1])
    ELSE ValueText(vals[1]) \o <<",", " ">> \o ValuesText(Tail(vals))

Parens(level, own, text) == IF level > own THEN <<"(">> \o text \o <<")">> ELSE text

\* level 0: operand of OR, 1: operand of AND, 2: operand of NOT
RECURSIVE TextOf(_, _, _)
TextOf(pred, level, style) ==
    CASE pred.node = "Or" ->
            Parens(level, 0, TextOf(pred.a, 0, style) \o <<" ">> \o Cased(KwOr, style)
                                \o <<" ">> \o TextOf(pred.b, 1, style))
      [] pred.node = "And" ->
            Parens(level, 1, TextOf(pred.a, 1, style) \o <<" ">> \o Cased(KwAnd, style)
                                \o <<" ">> \o TextOf(pred.b, 2, style))
      [] pred.node = "Not" -> Cased(KwNot, style) \o <<" ">> \o TextOf(pred.inner, 2, style)
      [] pred.node = "Comparison" ->
            pred.col \o <<" ">> \o OpText(pred.op) \o <<" ">> \o ValueText(pred.val)
      [] pred.node = "IsNull" ->
            pred.col \o <<" ">> \o Cased(KwIs, style) \o <<" ">> \o Cased(KwNull, style)
      [] pred.node = "IsNotNull" ->
            pred.col \o <<" ">> \o Cased(KwIs, style) \o <<" ">> \o Cased(KwNot, style)
                \o <<" ">> \o Cased(KwNull, style)
      [] pred.node = "In" ->
            pred.col \o <<" ">> \o Cased(KwIn, style) \o <<" ", "(">> \o ValuesText(pred.vals)
                \o <<")">>
      [] pred.node = "Like" ->
            pred.col \o <<" ">> \o Cased(KwLike, style) \o <<" ", "'">> \o pred.pattern
                \o <<"'">>

ColC == <<"c">>

TreeAtoms ==
    {Comparison(ColA, "Eq", IntV(1)), Comparison(ColB, "Eq", IntV(2)),
     Comparison(ColC, "Eq", IntV(3))}

\* the predicates of at most two levels of NOT / AND / OR over the atoms
WrittenTrees ==
    LET one == TreeAtoms \cup Composites(TreeAtoms)
    IN  one \cup Composites(one)

ColName == <<"n", "a", "m", "e">>
ColCity == <<"c", "i", "t", "y">>

FormValues == {IntV(1), IntV(30), StrV(<<"x">>), StrV(<<>>), BoolV(TRUE), BoolV(FALSE), NullV}

FormAtoms ==
    {IsNull(ColA), Like(ColB, <<"x", "%">>), In(ColC, <<IntV(1)>>),
     Comparison(ColA, "Ge", StrV(<<"x">>))}

\* every expression form, each written in every letter case of the keywords
WrittenForms ==
    {Comparison(c, op, v) : c \in {ColA, ColAge}, op \in CmpOp, v \in FormValues}
      \cup {IsNull(ColName), IsNotNull(ColName), IsNull(ColA), IsNotNull(ColA)}
      \cup {In(ColCity, <<StrV(<<"A">>), StrV(<<"B">>)>>), In(ColA, <<IntV(1)>>),
            In(ColA, <<IntV(30), StrV(<<"x">>), IntV(1)>>),
            In(ColA, <<NullV, BoolV(TRUE), IntV(1), IntV(1)>>)}
      \cup {Like(ColName, <<"f", "o", "o", "%">>), Like(ColA, <<>>), Like(ColA, <<"_", "x">>)}
      \cup Composites(FormAtoms)

(***************************************************************************)
(* Inputs of the parser: expressions that break the grammar.  A complete   *)
(* expression followed by a dangling keyword or by a left-over token, an   *)
(* unclosed parenthesis, and expressions that stop short or lack the       *)
(* comparison operator.                                                    *)
(***************************************************************************)
CompleteExpressions ==
    {TextOf(p, 0, "upper") :
        p \in {Comparison(ColA, "Eq", IntV(1)), IsNull(ColA), In(ColA, <<IntV(1), IntV(2)>>),
               Like(ColA, <<"x">>), Not(Comparison(ColA, "Eq", IntV(1))),
               And(Comparison(ColA, "Eq", IntV(1)), Comparison(ColB, "Eq", IntV(2))),
               Or(Comparison(ColA, "Eq", IntV(1)), IsNotNull(ColB))}}

\* what follows the complete expression
Tails ==
    {<<" ", "A", "N", "D">>,
     <<" ", "O", "R">>,
     <<" ", "A", "N", "D", " ", "N", "O", "T">>,
     <<" ", "O", "R", " ", "(">>,
     <<" ", "b">>,
     <<" ", "1">>,
     <<" ", ")">>,
     <<" ", "=", " ", "2">>,
     <<" ", "'", "x", "'">>,
     <<" ", "b", " ", "=", " ", "2">>,
     <<" ", "N", "O", "T", " ", "b", " ", "=", " ", "2">>,
     <<" ", ",">>,
     <<" ", "I", "S", " ", "N", "U", "L", "L">>,
     <<" ", "(", "b", " ", "=", " ", "2", ")">>}

\* the empty and blank expressions, expressions that stop short, unclosed
\* parentheses, missing comparison operators
Fragments ==
    {<<>>,
     <<" ">>,
     <<" ", " ">>,
     <<"a">>,
     <<"a", " ", "=">>,
     <<"a", " ", "<", "=">>,
     <<"a", " ", "I", "S">>,
     <<"a", " ", "I", "S", " ", "N", "O", "T">>,
     <<"a", " ", "I", "N">>,
     <<"a", " ", "I", "N", " ", "(">>,
     <<"a", " ", "I", "N", " ", "(", "1">>,
     <<"a", " ", "I", "N", " ", "(", "1", ",">>,
     <<"a", " ", "L", "I", "K", "E">>,
     <<"N", "O", "T">>,
     <<"(">>,
     <<"N", "O", "T", " ", "(">>,
     <<"a", " ", "=", " ", "1", " ", "A", "N", "D", " ", "(", "b", " ", "=", " ", "2">>,
     <<"(", "(", "a", " ", "=", " ", "1", ")">>,
     <<"a", " ", "1">>,
     <<"a", " ", "b">>,
     <<"a", " ", "'", "x", "'">>,
     <<"a", " ", "N", "O", "T", " ", "N", "U", "L", "L">>,
     <<"a", " ", "N", "U", "L", "L">>,
     <<"a", " ", "(", "1", ")">>,
     <<"a", " ", "I", "S", " ", "1">>,
     <<"a", " ", "I", "N", " ", "1">>}

MalformedInputs ==
    {x \o tail : x \in CompleteExpressions, tail \in Tails}
      \cup {<<"(">> \o x : x \in CompleteExpressions}
      \cup Fragments

(***************************************************************************)
(* ParseSpec: parse_predicate run on one expression.                       *)
(***************************************************************************)
NoPredicate == [node |-> "None"]

(***************************************************************************)
(* Inputs of the parser: comparisons and IN lists whose value is one token *)
(* of each kind parse_value tells apart.                                   *)
(***************************************************************************)
ValueTokens ==
    {<<"N", "U", "L", "L">>, <<"n", "u", "l", "l">>, <<"N", "u", "l", "l">>,
     <<"t", "r", "u", "e">>, <<"T", "R", "U", "E">>, <<"T", "r", "u", "e">>,
     <<"f", "a", "l", "s", "e">>, <<"F", "A", "L", "S", "E">>,
     <<"1">>, <<"-", "1">>, <<"1", "2">>, <<"1", ".", "5">>, <<"-", "0", ".", "5">>,
     <<"1", ".", "5", ".", "2">>, <<"1", "a">>, <<"a", "b", "c">>, <<"-">>,
     <<"'", "1", "'">>, <<"\"", "1", "\"">>, <<"'", "n", "u", "l", "l", "'">>,
     <<"'", "'">>, <<"'", "a", "b", "c">>, <<"'", "a", "\"">>, <<"'">>, <<"\"">>}

ValueInputs ==
    {<<"a", " ", "=", " ">> \o t : t \in ValueTokens}
        \cup {<<"a", " ", "I", "N", " ", "(">> \o t \o <<")">> : t \in ValueTokens}

(***************************************************************************)
(* Inputs of the parser: string literals.  A body of at most MaxBody       *)
(* characters is written between two quotes q; a quote of the body is      *)
(* written after a backslash (the other kind of quote may also be left as  *)
(* it is when no backslash precedes it), every other character as it is.   *)
(* A body ending in a backslash cannot be written: the backslash would     *)
(* escape the closing quote.                                               *)
(***************************************************************************)
BodyChars == {"a", " ", "<", ")", "'", "\"", "\\"}
Bodies(n) == {b \in SeqsUpTo(BodyChars, 0, n) : b = <<>> \/ b[Len(b)] # "\\"}

RECURSIVE Escaped(_, _, _, _)
Escaped(body, q, always, afterBackslash) ==
    IF body = <<>> THEN <<>>
    ELSE LET c == Head(body)
             written == IF c \in {"'", "\""} /\ (c = q \/ always \/ afterBackslash)
                        THEN <<"\\", c>> ELSE <<c>>
         IN  written \o Escaped(Tail(body), q, always, c = "\\")

Quoted(body, q, always) == <<q>> \o Escaped(body, q, always, FALSE) \o <<q>>

ColS == <<"s">>
LiteralForms(n) ==
    {Comparison(ColS, "Eq", StrV(b)) : b \in Bodies(n)}
        \cup {Like(ColS, b) : b \in Bodies(n)}
        \cup {In(ColS, <<StrV(b)>>) : b \in Bodies(n)}

\* the body of the literal of a form
BodyOf(pred) ==
    CASE pred.node = "Comparison" -> pred.val.str
      [] pred.node = "Like" -> pred.pattern
      [] pred.node = "In" -> pred.vals[1].str

LiteralText(pred, q, always) ==
    CASE pred.node = "Comparison" -> <<"s", " ", "=", " ">> \o Quoted(BodyOf(pred), q, always)
      [] pred.node = "Like" -> <<"s", " ", "L", "I", "K", "E", " ">> \o Quoted(BodyOf(pred), q, always)
      [] pred.node = "In" -> <<"s", " ", "I", "N", " ", "(">> \o Quoted(BodyOf(pred), q, always) \o <<")">>

(***************************************************************************)
(* Inputs of the parser: a parenthesis, a comma or a comparison operator   *)
(* where a column name or a value stands.                                  *)
(***************************************************************************)
ReservedTokens ==
    {<<"(">>, <<")">>, <<",">>, <<"=">>, <<"!", "=">>, <<"<", ">">>, <<"<">>, <<"<", "=">>,
     <<">">>, <<">", "=">>}

ReservedInputs ==
    {<<"a", " ", "=", " ">> \o t : t \in ReservedTokens}
        \cup {t \o <<" ", "=", " ", "1">> : t \in ReservedTokens}
        \cup {<<"a", " ", "I", "N", " ", "(", "1", ",">> \o t \o <<")">> : t \in ReservedTokens}
        \cup {<<"a", " ", "I", "N", " ", "(">> \o t \o <<",", "1", ")">> : t \in ReservedTokens}

\* `predicate` starts as the predicate the text was written from, if any
ParseInit ==
    /\ \/ /\ input \in GenInputs(MaxPieces) \cup ExampleInputs \cup MalformedInputs
                          \cup ValueInputs \cup ReservedInputs
          /\ predicate = NoPredicate
       \/ /\ predicate \in WrittenTrees
          /\ input = TextOf(predicate, 0, "upper")
       \/ /\ predicate \in WrittenForms
          /\ \E style \in Styles : input = TextOf(predicate, 0, style)
       \/ /\ predicate \in LiteralForms(MaxBody)
          /\ \E q \in {"'", "\""}, always \in BOOLEAN : input = LiteralText(predicate, q, always)
    /\ tokens = <<>>
    /\ lex_chars = <<>> /\ parser_pos = 1 /\ stack = <<>>
    /\ pc = "new"
    /\ result = NoResult
    /\ file = UnreadableFile
    /\ IdleDriver
    /\ skip = FALSE
    /\ mask = <<>>

\* Parser::new
Tokenize ==
    /\ pc = "new"
    /\ tokens' = tokenize(input)
    /\ pc' = "parse"
    /\ UNCHANGED <<file, predicate, driver_vars, result, skip, mask, input, lex_chars, parser_pos, stack>>

\* Parser::parse
Parse ==
    /\ pc = "parse"
    /\ result' = parse(tokens)
    /\ predicate' = IF result'.kind = "Ok" THEN result'.pred ELSE predicate
    /\ pc' = "parsed"
    /\ UNCHANGED <<file, driver_vars, skip, mask, input, tokens, lex_chars, parser_pos, stack>>

ParseNext == Tokenize \/ Parse

ParseSpec == ParseInit /\ [][ParseNext]_vars

(***************************************************************************)
(* Claims about parse_predicate (ParseSpec).                               *)
(***************************************************************************)
Parsed == pc = "parsed"

\* C4: parse_predicate never panics: for every input it returns a Predicate or
\* an error message.
C4_NeverPanics == Parsed => result.kind \in {"Ok", "Err"}

\* C5: `col IN ()` parses successfully to an In predicate on col whose value
\* sequence is empty.
C5_EmptyInList ==
    \A col \in {<<"a">>, <<"c", "o", "l">>} :
        (Parsed /\ input = col \o <<" ", "I", "N", " ", "(", ")">>)
            => result.kind = "Ok" /\ result.pred = In(col, <<>>)

\* C6: for every column c and literal v, `c <> v` parses, and to the same
\* Comparison (operator Ne, same column, same value) as `c != v`.
C6_NeSynonym ==
    \A c \in {<<"a">>}, v \in {<<"1">>, <<"a">>}, sp \in {<<>>, <<" ">>} :
        (Parsed /\ input = c \o sp \o <<"<", ">">> \o sp \o v)
            => /\ result.kind = "Ok"
               /\ result.pred.node = "Comparison" /\ result.pred.op = "Ne"
               /\ result.pred.col = c
               /\ result = parse_predicate(c \o sp \o <<"!", "=">> \o sp \o v)

AtomA == Comparison(ColA, "Eq", IntV(1))
AtomB == Comparison(ColB, "Eq", IntV(2))
AtomC == Comparison(ColC, "Eq", IntV(3))

\* the documented examples: <<expression, AST>>
PrecedenceExamples ==
    {<<<<"a", " ", "=", " ", "1", " ", "O", "R", " ", "b", " ", "=", " ", "2", " ", "A", "N", "D", " ", "c", " ", "=", " ", "3">>,
       Or(AtomA, And(AtomB, AtomC))>>,
     <<<<"N", "O", "T", " ", "a", " ", "=", " ", "1", " ", "A", "N", "D", " ", "b", " ", "=", " ", "2">>,
       And(Not(AtomA), AtomB)>>,
     <<<<"a", " ", "=", " ", "1", " ", "O", "R", " ", "b", " ", "=", " ", "2", " ", "O", "R", " ", "c", " ", "=", " ", "3">>,
       Or(Or(AtomA, AtomB), AtomC)>>,
     <<<<"(", "a", " ", "=", " ", "1", " ", "O", "R", " ", "b", " ", "=", " ", "2", ")", " ", "A", "N", "D", " ", "c", " ", "=", " ", "3">>,
       And(Or(AtomA, AtomB), AtomC)>>}

\* C22: the parser enforces the precedence OR (loosest) > AND > NOT > atom with
\* left-associative AND / OR and parenthesised sub-expressions parsed as a
\* unit: `a = 1 OR b = 2 AND c = 3` parses to Or(a, And(b, c)),
\* `NOT a = 1 AND b = 2` to And(Not(a), b), `a = 1 OR b = 2 OR c = 3` to
\* Or(Or(a, b), c) and `(a = 1 OR b = 2) AND c = 3` to And(Or(a, b), c); every
\* predicate of NOT / AND / OR written with the parentheses this precedence
\* calls for parses back to itself.
C22_Precedence ==
    /\ [](Parsed => \A e \in PrecedenceExamples :
                        input = e[1] => result = [kind |-> "Ok", pred |-> e[2]])
    /\ [][(pc = "parse" /\ predicate.node \in {"And", "Or", "Not"})
             => result' = [kind |-> "Ok", pred |-> predicate]]_vars

\* `a = 1 OR b = 2 AND c = 3` has been parsed to Or(a, And(b, c))
C22_Witness ==
    /\ Parsed /\ input = TextOf(Or(AtomA, And(AtomB, AtomC)), 0, "upper")
    /\ input = <<"a", " ", "=", " ", "1", " ", "O", "R", " ", "b", " ", "=", " ", "2", " ", "A", "N", "D", " ", "c", " ", "=", " ", "3">>
    /\ result.kind = "Ok" /\ result.pred = Or(AtomA, And(AtomB, AtomC))

\* one more token after a complete expression
ExtraTokens ==
    {<<"a">>, <<"1">>, <<"(">>, <<")">>, <<",">>, <<"=">>, <<"'", "x", "'">>, KwAnd, KwOr,
     KwNot, <<"o", "r">>, KwIs, KwNull}

C23_Dangling ==
    /\ Parsed /\ input = <<"a", " ", "=">>
    /\ result = [kind |-> "Err", what |-> "expected value, got EOF", tok |-> EOF]

\* expressions of the parser's tests and others: <<expression, AST>>
FormExamples ==
    {<<<<"c", "i", "t", "y", " ", "I", "N", " ", "(", "'", "A", "'", ",", "'", "B", "'", ")">>,
       In(ColCity, <<StrV(<<"A">>), StrV(<<"B">>)>>)>>,
     <<<<"n", "a", "m", "e", " ", "L", "I", "K", "E", " ", "'", "f", "o", "o", "%", "'">>,
       Like(ColName, <<"f", "o", "o", "%">>)>>,
     <<<<"a", "g", "e", "<", "=", "3", "0">>, Comparison(ColAge, "Le", IntV(30))>>,
     <<<<"a", " ", "i", "s", " ", "n", "o", "t", " ", "n", "u", "l", "l", " ", "o", "r", " ", "n", "o", "t", " ", "b", " ", "l", "i", "k", "e", " ", "'", "x", "%", "'", " ", "a", "n", "d", " ", "c", " ", "i", "n", " ", "(", "1", ")">>,
       Or(IsNotNull(ColA), And(Not(Like(ColB, <<"x", "%">>)), In(ColC, <<IntV(1)>>)))>>}

\* C24: every expression form parses to the matching AST variant carrying the
\* column, operator and value written in the text: =, !=, <, <=, >, >= give
\* Comparison with Eq, Ne, Lt, Le, Gt, Ge; IS NULL gives IsNull; IS NOT NULL
\* gives IsNotNull; IN (...) gives In with the values in order; LIKE gives
\* Like; AND, OR, NOT give And, Or, Not; the keywords OR, AND, NOT, IS, IN,
\* LIKE, NULL are matched whatever their letter case.
C24_FormsRoundTrip ==
    /\ [](Parsed => \A e \in FormExamples :
                        input = e[1] => result = [kind |-> "Ok", pred |-> e[2]])
    /\ [][(pc = "parse" /\ predicate # NoPredicate)
             => result' = [kind |-> "Ok", pred |-> predicate]]_vars

\* `a Is NoT NuLl` has been parsed to IsNotNull(a)
C24_Witness ==
    /\ Parsed /\ input = TextOf(IsNotNull(ColA), 0, "mixed")
    /\ input = <<"a", " ", "I", "s", " ", "N", "o", "T", " ", "N", "u", "L", "l">>
    /\ result = [kind |-> "Ok", pred |-> IsNotNull(ColA)]


(***************************************************************************)
(* ParseSpec: the value literals.                                          *)
(***************************************************************************)
\* the comparisons `a = <token>` and the lists `a IN (<token>)` that were parsed
ValueTokenOf(toks) ==
    IF Len(toks) = 3 /\ toks[1] = <<"a">> /\ toks[2] = <<"=">> THEN toks[3]
    ELSE IF Len(toks) = 5 /\ toks[1] = <<"a">> /\ toks[2] = <<"I", "N">>
            /\ toks[3] = <<"(">> /\ toks[5] = <<")">> THEN toks[4]
    ELSE <<>>

ValueOf(res) ==
    IF res.pred.node = "Comparison" THEN res.pred.val ELSE res.pred.vals[1]

Closed(t) == Len(t) >= 2 /\ t[Len(t)] = t[1]

\* the value the stated order gives the token t
Classified(t, v) ==
    IF t \in {<<"N", "U", "L", "L">>, <<"n", "u", "l", "l">>} THEN v = NullV
    ELSE IF t \in {<<"t", "r", "u", "e">>, <<"T", "R", "U", "E">>} THEN v = BoolV(TRUE)
    ELSE IF t \in {<<"f", "a", "l", "s", "e">>, <<"F", "A", "L", "S", "E">>} THEN v = BoolV(FALSE)
    ELSE IF t[1] \in {"'", "\""}
    THEN /\ v.kind = "Str"
         /\ Closed(t) => v = StrV(SubSeq(t, 2, Len(t) - 1))
    ELSE IF IsIntText(t) THEN v = IntV(IntOfText(t))
    ELSE IF IsFloatText(t) THEN v = FloatV(FloatOfText(t))
    ELSE v = StrV(t)

\* C27: a value token is classified in the order NULL/null, true/false,
\* quoted text (Value::Str with the surrounding quotes stripped), 64-bit
\* integer, float, raw token as Value::Str; so `1` is Int, `1.5` is Float,
\* `'1'` is Str and an unquoted word is Str
C27_ValueClassification ==
    (pc = "parsed" /\ ValueTokenOf(tokens) # <<>>)
        => /\ result.kind = "Ok"
           /\ result.pred.node \in {"Comparison", "In"}
           /\ Classified(ValueTokenOf(tokens), ValueOf(result))

\* the same, for every token but the lone quote character
C27_ExceptLoneQuote ==
    (pc = "parsed" /\ ValueTokenOf(tokens) # <<>> /\ ValueTokenOf(tokens) \notin {<<"'">>, <<"\"">>})
        => /\ result.kind = "Ok"
           /\ result.pred.node \in {"Comparison", "In"}
           /\ Classified(ValueTokenOf(tokens), ValueOf(result))

C27_Float ==
    /\ pc = "parsed"
    /\ tokens = <<<<"a">>, <<"=">>, <<"1", ".", "5">>>>
    /\ result = [kind |-> "Ok", pred |-> Comparison(<<"a">>, "Eq", FloatV(FloatOfText(<<"1", ".", "5">>)))]


(***************************************************************************)
(* ParseSpec: string literals.                                             *)
(***************************************************************************)
\* the input is a form written around one string literal
LiteralCase ==
    IF predicate = NoPredicate THEN FALSE
    ELSE IF predicate.node \in {"Comparison", "Like", "In"} THEN predicate.col = ColS
    ELSE FALSE

\* the quote that opens the literal of the input
OpeningQuote ==
    CASE predicate.node = "Comparison" -> input[5]
      [] predicate.node = "Like" -> input[8]
      [] predicate.node = "In" -> input[7]

\* the tokens of the form, its literal being one token: the body between two quotes q
LiteralTokens(pred, q) ==
    LET lit == <<q>> \o BodyOf(pred) \o <<q>>
    IN  CASE pred.node = "Comparison" -> <<ColS, <<"=">>, lit>>
          [] pred.node = "Like" -> <<ColS, <<"L", "I", "K", "E">>, lit>>
          [] pred.node = "In" -> <<ColS, <<"I", "N">>, <<"(">>, lit, <<")">>>>

\* C28: a quoted run becomes one token ending at the matching unescaped quote;
\* whitespace, operators and punctuation inside the quotes stay in the token,
\* a backslash followed by a quote contributes the quote and does not end the
\* literal, any other backslash is kept, and the value built from the token is
\* exactly the text between the opening and the closing quote
C28_StringLiterals ==
    /\ [][(pc = "new" /\ LiteralCase)
             => tokens' = LiteralTokens(predicate, OpeningQuote)]_vars
    /\ [][(pc = "parse" /\ LiteralCase)
             => result' = [kind |-> "Ok", pred |-> predicate]]_vars

\* `s = '\ \''` has been read as the literal of body `\ '`
C28_Witness ==
    /\ pc = "parsed"
    /\ input = <<"s", " ", "=", " ", "'", "\\", " ", "\\", "'", "'">>
    /\ tokens = <<ColS, <<"=">>, <<"'", "\\", " ", "'", "'">>>>
    /\ result = [kind |-> "Ok", pred |-> Comparison(ColS, "Eq", StrV(<<"\\", " ", "'">>))]


(***************************************************************************)
(* StepSpec: parse_predicate step by step.  One step is one iteration of   *)
(* the `while` of tokenize, or the code of one parse_* function between    *)
(* two calls or returns.  A frame of the stack is one running call: its    *)
(* function, the label it has reached, the position it was called at, its  *)
(* locals, and the value the last call it made has returned.               *)
(***************************************************************************)
NoReturn == [st |-> "None"]

Frame(fn, at) ==
    [fn |-> fn, lbl |-> "start", at |-> at, left |-> NoPredicate, col |-> <<>>,
     vals |-> <<>>, got |-> NoReturn]

Top == stack[Len(stack)]
Callers == SubSeq(stack, 1, Len(stack) - 1)

StepPieces ==
    {<<"N", "O", "T", " ">>, <<"(">>, <<")">>, <<"a", "=", "1">>, <<" ", "O", "R", " ">>,
     <<"b", " ", "I", "N", " ", "(", "1", ",", "2">>}

\* `NOT NOT (a=1 OR b IN (1,2) AND (a=1))`
NestedExample ==
    <<"N", "O", "T", " ", "N", "O", "T", " ", "(", "a", "=", "1", " ", "O", "R", " ",
      "b", " ", "I", "N", " ", "(", "1", ",", "2", ")", " ", "A", "N", "D", " ",
      "(", "a", "=", "1", ")", ")">>

StepInputs(n) ==
    {Join(ps) : ps \in SeqsUpTo(StepPieces, 0, n)}
        \cup ExampleInputs \cup MalformedInputs \cup ValueInputs \cup {NestedExample}

StepInit ==
    /\ input \in StepInputs(MaxNest)
    /\ lex_chars = input
    /\ tokens = <<>>
    /\ parser_pos = 1
    /\ stack = <<>>
    /\ pc = "lex"
    /\ predicate = NoPredicate
    /\ result = NoResult
    /\ file = UnreadableFile
    /\ IdleDriver
    /\ skip = FALSE
    /\ mask = <<>>

idle_vars == <<file, driver_vars, skip, mask, input>>

\* lines 223-285: one iteration of the `while` of tokenize
LexStep ==
    /\ pc = "lex"
    /\ lex_chars # <<>>
    /\ LET n == TokenizeIter(lex_chars, tokens)
       IN  lex_chars' = n.chars /\ tokens' = n.toks
    /\ UNCHANGED <<idle_vars, predicate, pc, result, parser_pos, stack>>

\* lines 286, 65-70, 288-289: tokenize returns, Parser::new, parse is called
LexEnd ==
    /\ pc = "lex"
    /\ lex_chars = <<>>
    /\ pc' = "run"
    /\ parser_pos' = 1
    /\ stack' = <<Frame("parse", 1)>>
    /\ UNCHANGED <<idle_vars, predicate, result, tokens, lex_chars>>

\* the running call goes on at the label lbl
Goto(lbl) == Append(Callers, [Top EXCEPT !.lbl = lbl])

\* the running call calls fn at the position at and goes on at lbl when it returns
Call(fn, at, lbl) ==
    /\ stack' = Append(Goto(lbl), Frame(fn, at))
    /\ parser_pos' = at
    /\ UNCHANGED <<pc, result, predicate>>

\* the running call returns r to its caller; a panic unwinds every call
ReturnTo(r) ==
    IF r.st = "Panic"
    THEN /\ stack' = <<>>
         /\ pc' = "parsed"
         /\ result' = [kind |-> "Panic"]
         /\ UNCHANGED <<parser_pos, predicate>>
    ELSE /\ stack' = Append(SubSeq(stack, 1, Len(stack) - 2),
                            [stack[Len(stack) - 1] EXCEPT !.got = r])
         /\ parser_pos' = IF r.st = "Ok" THEN r.pos ELSE parser_pos
         /\ UNCHANGED <<pc, result, predicate>>

Running(fn) == pc = "run" /\ stack # <<>> /\ Top.fn = fn

\* lines 91-97: Parser::parse
RunParse ==
    /\ Running("parse")
    /\ IF Top.lbl = "start" THEN Call("parse_or", parser_pos, "end")
       ELSE /\ result' = ParseEnd(tokens, Top.got)
            /\ predicate' = IF result'.kind = "Ok" THEN result'.pred ELSE predicate
            /\ pc' = "parsed"
            /\ stack' = <<>>
            /\ UNCHANGED parser_pos
    /\ UNCHANGED <<idle_vars, tokens, lex_chars>>

\* lines 98-106 and 107-115: the body of parse_or and of parse_and, a chain of
\* operands joined by the keyword kw into nodes of the kind node
ChainStep(kw, operand, node) ==
    CASE Top.lbl = "start" -> Call(operand, parser_pos, "operand")
      [] Top.lbl = "operand" ->
             IF Top.got.st # "Ok" THEN ReturnTo(Top.got)
             ELSE /\ stack' = Append(Callers,
                         [Top EXCEPT !.lbl = "while",
                                     !.left = IF Top.left = NoPredicate THEN Top.got.pred
                                              ELSE [node |-> node, a |-> Top.left,
                                                    b |-> Top.got.pred]])
                  /\ UNCHANGED <<pc, result, predicate, parser_pos>>
      [] Top.lbl = "while" ->
             IF peek_upper(tokens, parser_pos) = kw
             THEN Call(operand, parser_pos + 1, "operand")
             ELSE ReturnTo(POk(Top.left, parser_pos))

\* lines 98-106: parse_or
RunOr ==
    /\ Running("parse_or")
    /\ ChainStep(KwOr, "parse_and", "Or")
    /\ UNCHANGED <<idle_vars, tokens, lex_chars>>

\* lines 107-115: parse_and
RunAnd ==
    /\ Running("parse_and")
    /\ ChainStep(KwAnd, "parse_not", "And")
    /\ UNCHANGED <<idle_vars, tokens, lex_chars>>

\* lines 116-123: parse_not
RunNot ==
    /\ Running("parse_not")
    /\ CASE Top.lbl = "start" ->
                IF peek_upper(tokens, parser_pos) = KwNot
                THEN Call("parse_not", parser_pos + 1, "inner")
                ELSE Call("parse_atom", parser_pos, "atom")
         [] Top.lbl = "inner" ->
                IF Top.got.st # "Ok" THEN ReturnTo(Top.got)
                ELSE ReturnTo(POk(Not(Top.got.pred), Top.got.pos))
         [] Top.lbl = "atom" -> ReturnTo(Top.got)
    /\ UNCHANGED <<idle_vars, tokens, lex_chars>>

\* lines 124-190: parse_atom; the loop of the IN list takes one step for each value
RunAtom ==
    /\ Running("parse_atom")
    /\ CASE Top.lbl = "start" ->
                IF peek(tokens, parser_pos) = <<"(">>
                THEN Call("parse_or", parser_pos + 1, "paren")
                ELSE IF parser_pos <= Len(tokens) /\ peek_upper(tokens, parser_pos + 1) = KwIn
                THEN LET e == expect(tokens, parser_pos + 2, <<"(">>)
                     IN  IF e.st # "Ok" THEN ReturnTo(e)
                         ELSE /\ stack' = Append(Callers,
                                     [Top EXCEPT !.lbl = "loop", !.col = tokens[parser_pos]])
                              /\ parser_pos' = e.pos
                              /\ UNCHANGED <<pc, result, predicate>>
                ELSE ReturnTo(AtomTail(tokens, parser_pos))
         [] Top.lbl = "paren" -> ReturnTo(ParenClose(tokens, Top.got))
         [] Top.lbl = "loop" ->
                LET v == parse_value(tokens, parser_pos)
                IN  IF v.st = "Ok" /\ peek(tokens, v.pos) = <<",">>
                    THEN /\ stack' = Append(Callers, [Top EXCEPT !.vals = Append(Top.vals, v.val)])
                         /\ parser_pos' = v.pos + 1
                         /\ UNCHANGED <<pc, result, predicate>>
                    ELSE ReturnTo(InListStep(tokens, Top.col, Top.vals, v))
    /\ UNCHANGED <<idle_vars, tokens, lex_chars>>

StepNext == LexStep \/ LexEnd \/ RunParse \/ RunOr \/ RunAnd \/ RunNot \/ RunAtom

\* parse_predicate runs on one thread and is never suspended
StepSpec == StepInit /\ [][StepNext]_vars /\ WF_vars(StepNext)

\* the steps end with the tokens and the result of the functions taken whole
StepsAgree ==
    pc = "parsed" => tokens = tokenize(input) /\ result = parse(tokens)


(***************************************************************************)
(* StepSpec: termination.                                                  *)
(***************************************************************************)
\* a call of a function that is already running was made at a later position
NestedCallsConsume ==
    \A i, j \in 1..Len(stack) :
        (i < j /\ stack[i].fn = stack[j].fn) => stack[i].at < stack[j].at

\* a step that begins another iteration of the OR chain, of the AND chain or
\* of the IN list
NextIteration ==
    /\ pc = "run" /\ stack # <<>>
    /\ \/ Top.fn \in {"parse_or", "parse_and"} /\ Top.lbl = "while"
             /\ Len(stack') = Len(stack) + 1
       \/ Top.fn = "parse_atom" /\ Top.lbl = "loop"
             /\ Len(stack') = Len(stack) /\ pc' = "run"

\* C29: tokenizing and parsing terminate: every iteration of the tokenize loop
\* consumes at least one character, every loop iteration and recursive call
\* of the parser consumes at least one token, and parse_predicate finishes
C29_Terminates ==
    /\ [][(pc = "lex" /\ lex_chars # <<>>) => Len(lex_chars') < Len(lex_chars)]_vars
    /\ [][NextIteration => parser_pos' > parser_pos]_vars
    /\ [](NestedCallsConsume /\ parser_pos <= Len(tokens) + 1)
    /\ <>(pc = "parsed")

\* the nested example has been parsed: two NOTs, two parentheses, an OR, an AND
\* and an IN list of two values
C29_Witness ==
    /\ pc = "parsed"
    /\ input = NestedExample
    /\ result = [kind |-> "Ok",
                 pred |-> Not(Not(Or(Comparison(ColA, "Eq", IntV(1)),
                                     And(In(ColB, <<IntV(1), IntV(2)>>),
                                         Comparison(ColA, "Eq", IntV(1))))))]


(***************************************************************************)
(* ParseSpec: reserved tokens where an operand stands.                     *)
(***************************************************************************)
IsCmpToken(t) == CmpOpOf(t) # "None"

\* the tokens are a comparison or a two-element IN list in which a reserved
\* token stands for the column name or for a value
ReservedOperand(toks) ==
    \/ /\ Len(toks) = 3 /\ IsCmpToken(toks[2])
       /\ toks[1] \in ReservedTokens \/ toks[3] \in ReservedTokens
    \/ /\ Len(toks) = 7 /\ to_uppercase(toks[2]) = KwIn
       /\ toks[3] = <<"(">> /\ toks[5] = <<",">> /\ toks[7] = <<")">>
       /\ toks[1] \in ReservedTokens \/ toks[4] \in ReservedTokens \/ toks[6] \in ReservedTokens

\* C30: an expression in which a column-name position or a value position
\* (an IN list element included) holds `(`, `)`, `,` or a comparison operator
\* is a syntax error; `a = )` and `a IN (1,))` fail to parse (no predicate is
\* returned for them)
C30_ReservedRejected ==
    (pc = "parsed" /\ ReservedOperand(tokens)) => result.kind # "Ok"

\* `a = )` has been parsed to the comparison of a with the string `)`
C30_Accepted ==
    /\ pc = "parsed"
    /\ input = <<"a", " ", "=", " ", ")">>
    /\ result = [kind |-> "Ok", pred |-> Comparison(ColA, "Eq", StrV(<<")">>))]

\* `a IN (1,))` has been parsed to a list holding the string `)`
C30_AcceptedInList ==
    /\ pc = "parsed"
    /\ input = <<"a", " ", "I", "N", " ", "(", "1", ",", ")", ")">>
    /\ result = [kind |-> "Ok", pred |-> In(ColA, <<IntV(1), StrV(<<")">>)>>)]

====
